---- MODULE Spec2Model ----
(***************************************************************************)
(* Verification model of the competitive-programming assistant:            *)
(* the upstream API client layer, the aggregation handlers, the pyplot     *)
(* based graphing tools and the Gemini/MCP bridge.                         *)
(*                                                                         *)
(* The module holds several specifications over one set of variables; a    *)
(* specification drives the variables of one subsystem and leaves the      *)
(* others at their dormant initial values.                                 *)
(***************************************************************************)
EXTENDS Integers, Sequences, FiniteSets, TLC

VARIABLES
    clApi,        \* client layer: which platform client is being invoked
    clPc,         \* client layer: position inside the invocation
    clResp,       \* client layer: what the network delivered
    clRequests,   \* client layer: outbound requests sent by this invocation
    clOutcome,    \* client layer: what the invocation returned or raised
    clCalls,      \* client layer: invocations finished so far
    cmpPc,        \* compare_codeforces_users: position inside the handler
    cmpHandles,   \* compare_codeforces_users: the handles argument
    cmpUsersInfo, \* compare_codeforces_users: users_info
    cmpIdx,       \* compare_codeforces_users: index of the user being enriched
    cmpChanges,   \* compare_codeforces_users: rating_changes of that user
    cmpData,      \* compare_codeforces_users: comparison_data
    cmpUpstream,  \* what the per-user upstream calls answered, per handle
    cmpResult,    \* compare_codeforces_users: the returned value
    invPc,        \* tool invocations: position of each invocation
    invTool,      \* tool invocations: the tool each invocation runs
    invHandles,   \* tool invocations: target_handles / handles
    invFig,       \* plot_rating_graph: the figure created by plt.subplots
    invIdx,       \* generate_comparison_card: index of the handle being fetched
    invData,      \* generate_comparison_card: user_data (handles with data)
    invFetch,     \* tool invocations: what the upstream answered per handle
    invResult,    \* tool invocations: the value returned or the error raised
    invSaved,     \* plot_rating_graph: the figure plt.savefig rendered
    invClosed,    \* plot_rating_graph: the figures this invocation closed
    figLines,     \* matplotlib: the lines plotted on each figure ever created
    gcf,          \* matplotlib.pyplot: open figures, the current one last
    fanHandler,   \* upstream fan-out: the handler that is running
    fanHandles,   \* upstream fan-out: the handles of the request
    fanPc,        \* upstream fan-out: position of the handler
    fanBatch,     \* upstream fan-out: index of the await the handler is at
    fanIssued,    \* upstream fan-out: upstream calls issued so far
    fanEnded,     \* upstream fan-out: upstream calls that have ended
    brPc,         \* bridge: position inside call_mcp_tool
    brContent,    \* bridge: tool_result.content, as the handler returned it
    brOutput,     \* bridge: what call_mcp_tool returned to its caller
    brTool,       \* bridge: the tool name of the call
    brHandlerRan, \* bridge: whether the tool manager called a handler
    brFault,      \* bridge: the failure the tool manager raised, if any
    solSubs,      \* solved problems: the submission list user.status returned
    solHandler,   \* solved problems: the handler that scanned the list
    solCount,     \* solved problems: how many solved problems it derived
    recPc,        \* recommend_problems: position inside the handler
    recArgs,      \* recommend_problems: min_rating, max_rating and count as received
    recInfo,      \* recommend_problems: what user.info answered
    recWindow,    \* recommend_problems: min_rating and max_rating used by the filter
    recSubs,      \* recommend_problems: submissions
    recCandidates,
                  \* recommend_problems: candidates before the shuffle
    recResult,    \* recommend_problems: the returned text or the raised error
    histPc,       \* get_solved_rating_histogram: position of the dispatched call
    histBinSize,  \* get_solved_rating_histogram: the bin_size argument
    histEntered,  \* get_solved_rating_histogram: whether the handler body ran
    histRequests, \* get_solved_rating_histogram: upstream calls issued
    histSubs,     \* get_solved_rating_histogram: submissions
    histResult,   \* get_solved_rating_histogram: what the caller received
    perfPc,       \* plot_performance_graph: position inside the handler
    perfChanges,  \* plot_performance_graph: rating_changes as user.rating returned them
    perfSeries,   \* plot_performance_graph: the plotted (time, performance) points
    perfResult,   \* plot_performance_graph: what the call ended with
    dfCase,       \* defaults: the tool and the optional parameter looked at
    dfConfig,     \* defaults: config.DEFAULT_HANDLE
    dfArgs,       \* defaults: the arguments of the two calls
    dfPc,         \* defaults: position of each call
    dfRequests,   \* defaults: upstream requests each call issued
    dfUpstream,   \* defaults: what the upstream holds
    dfResult,     \* defaults: what each call returned
    imgPc,        \* image tools: position inside the handler
    imgTool,      \* image tools: the tool that was called
    imgSubject,   \* image tools: the handle the tool works on
    imgResult,    \* image tools: what the handler returned or raised
    imgUpstream,  \* image tools: what the upstream held for the subject
    regNext,      \* index of the next registration that importing server.py performs
    registry,     \* the tool manager's table, name to handlers registered
    regLog,       \* the dispatches made so far, in order
    mainPc,       \* where main() of main.py is
    lcUrl,        \* config.RENDER_HEALTH_URL
    lcCause,      \* how the conversation loop was left
    srvPc,        \* state of the task running start_server()
    kaPc,         \* state of the task running keep_alive()
    kaLast,       \* how the last ping ended
    kaWaits,      \* five-minute waits completed (counted up to MaxPings)
    kaPings,      \* pings completed (counted up to MaxPings)
    idPc,         \* handle resolution: position inside the handler
    idCall,       \* handle resolution: the tool, its handle arguments and config.DEFAULT_HANDLE
    idRequests,   \* handle resolution: the upstream calls issued
    idResult,     \* handle resolution: how the call ended
    rcPc,         \* get_solved_problems: position inside the handler
    rcCount,      \* get_solved_problems: the count argument
    rcSubs,       \* get_solved_problems: the submissions user.status returned
    rcReply,      \* get_solved_problems: the reply
    cvPc,         \* process_message: position inside the method
    cvParts,      \* process_message: the parts of the model's response
    cvIndex,      \* process_message: the part the loop is at
    cvLog,        \* process_message: bridge dispatches and function responses, in order
    cvResults,    \* process_message: result_parts
    cvReturn,     \* process_message: what the method returned
    stPc,         \* get_codeforces_user_stats: position inside the handler
    stHandles,    \* get_codeforces_user_stats: target_handles
    stUsersInfo,  \* get_codeforces_user_stats: what user.info returned
    stReply,      \* get_codeforces_user_stats: the reply
    ctPc,         \* get_upcoming_contests: position inside the handler
    ctArgs,       \* get_upcoming_contests: the platforms and limit arguments
    ctRequests,   \* get_upcoming_contests: the requests sent to the aggregator
    ctUpstream,   \* get_upcoming_contests: the contests the aggregator returned
    ctReply       \* get_upcoming_contests: the reply

clientVars == <<clApi, clPc, clResp, clRequests, clOutcome, clCalls>>
compareVars == <<cmpPc, cmpHandles, cmpUsersInfo, cmpIdx, cmpChanges, cmpData,
                 cmpUpstream, cmpResult>>

toolVars == <<invPc, invTool, invHandles, invFig, invIdx, invData, invFetch,
              invResult, invSaved, invClosed, figLines, gcf>>

fanVars == <<fanHandler, fanHandles, fanPc, fanBatch, fanIssued, fanEnded>>

bridgeVars == <<brPc, brContent, brOutput, brTool, brHandlerRan, brFault>>

solvedVars == <<solSubs, solHandler, solCount>>

recommendVars == <<recPc, recArgs, recInfo, recWindow, recSubs, recCandidates, recResult>>

histogramVars == <<histPc, histBinSize, histEntered, histRequests, histSubs, histResult>>

performanceVars == <<perfPc, perfChanges, perfSeries, perfResult>>

defaultsVars == <<dfCase, dfConfig, dfArgs, dfPc, dfRequests, dfUpstream, dfResult>>

imageVars == <<imgPc, imgTool, imgSubject, imgResult, imgUpstream>>

registryVars == <<regNext, registry, regLog>>

lifecycleVars == <<mainPc, lcUrl, lcCause, srvPc, kaPc, kaLast, kaWaits, kaPings>>

identityVars == <<idPc, idCall, idRequests, idResult>>

recentVars == <<rcPc, rcCount, rcSubs, rcReply>>

conversationVars == <<cvPc, cvParts, cvIndex, cvLog, cvResults, cvReturn>>

statsVars == <<stPc, stHandles, stUsersInfo, stReply>>

contestsVars == <<ctPc, ctArgs, ctRequests, ctUpstream, ctReply>>

vars == <<clientVars, compareVars, toolVars, fanVars, bridgeVars, solvedVars, recommendVars, histogramVars, performanceVars, defaultsVars, imageVars, registryVars, lifecycleVars, identityVars, recentVars, conversationVars, statsVars, contestsVars>>

\* What an action of one subsystem leaves alone.
notClient == <<compareVars, toolVars, fanVars, bridgeVars, solvedVars, recommendVars, histogramVars, performanceVars, defaultsVars, imageVars, registryVars, lifecycleVars, identityVars, recentVars, conversationVars, statsVars, contestsVars>>
notCompare == <<clientVars, toolVars, fanVars, bridgeVars, solvedVars, recommendVars, histogramVars, performanceVars, defaultsVars, imageVars, registryVars, lifecycleVars, identityVars, recentVars, conversationVars, statsVars, contestsVars>>
notTools == <<clientVars, compareVars, fanVars, bridgeVars, solvedVars, recommendVars, histogramVars, performanceVars, defaultsVars, imageVars, registryVars, lifecycleVars, identityVars, recentVars, conversationVars, statsVars, contestsVars>>
notFan == <<clientVars, compareVars, toolVars, bridgeVars, solvedVars, recommendVars, histogramVars, performanceVars, defaultsVars, imageVars, registryVars, lifecycleVars, identityVars, recentVars, conversationVars, statsVars, contestsVars>>
notBridge == <<clientVars, compareVars, toolVars, fanVars, solvedVars, recommendVars, histogramVars, performanceVars, defaultsVars, imageVars, registryVars, lifecycleVars, identityVars, recentVars, conversationVars, statsVars, contestsVars>>
notSolved == <<clientVars, compareVars, toolVars, fanVars, bridgeVars, recommendVars, histogramVars, performanceVars, defaultsVars, imageVars, registryVars, lifecycleVars, identityVars, recentVars, conversationVars, statsVars, contestsVars>>
notRecommend == <<clientVars, compareVars, toolVars, fanVars, bridgeVars, solvedVars, histogramVars, performanceVars, defaultsVars, imageVars, registryVars, lifecycleVars, identityVars, recentVars, conversationVars, statsVars, contestsVars>>
notHistogram == <<clientVars, compareVars, toolVars, fanVars, bridgeVars, solvedVars, recommendVars, performanceVars, defaultsVars, imageVars, registryVars, lifecycleVars, identityVars, recentVars, conversationVars, statsVars, contestsVars>>
notPerformance == <<clientVars, compareVars, toolVars, fanVars, bridgeVars, solvedVars, recommendVars, histogramVars, defaultsVars, imageVars, registryVars, lifecycleVars, identityVars, recentVars, conversationVars, statsVars, contestsVars>>
notDefaults == <<clientVars, compareVars, toolVars, fanVars, bridgeVars, solvedVars, recommendVars, histogramVars, performanceVars, imageVars, registryVars, lifecycleVars, identityVars, recentVars, conversationVars, statsVars, contestsVars>>
notImage == <<clientVars, compareVars, toolVars, fanVars, bridgeVars, solvedVars, recommendVars, histogramVars, performanceVars, defaultsVars, registryVars, lifecycleVars, identityVars, recentVars, conversationVars, statsVars, contestsVars>>
notRegistry == <<clientVars, compareVars, toolVars, fanVars, bridgeVars, solvedVars, recommendVars, histogramVars, performanceVars, defaultsVars, imageVars, lifecycleVars, identityVars, recentVars, conversationVars, statsVars, contestsVars>>
notLifecycle == <<clientVars, compareVars, toolVars, fanVars, bridgeVars, solvedVars, recommendVars, histogramVars, performanceVars, defaultsVars, imageVars, registryVars, identityVars, recentVars, conversationVars, statsVars, contestsVars>>
notIdentity == <<clientVars, compareVars, toolVars, fanVars, bridgeVars, solvedVars, recommendVars, histogramVars, performanceVars, defaultsVars, imageVars, registryVars, lifecycleVars, recentVars, conversationVars, statsVars, contestsVars>>
notRecent == <<clientVars, compareVars, toolVars, fanVars, bridgeVars, solvedVars, recommendVars, histogramVars, performanceVars, defaultsVars, imageVars, registryVars, lifecycleVars, identityVars, conversationVars, statsVars, contestsVars>>
notConversation == <<clientVars, compareVars, toolVars, fanVars, bridgeVars, solvedVars, recommendVars, histogramVars, performanceVars, defaultsVars, imageVars, registryVars, lifecycleVars, identityVars, recentVars, statsVars, contestsVars>>
notStats == <<clientVars, compareVars, toolVars, fanVars, bridgeVars, solvedVars, recommendVars, histogramVars, performanceVars, defaultsVars, imageVars, registryVars, lifecycleVars, identityVars, recentVars, conversationVars, contestsVars>>
notContests == <<clientVars, compareVars, toolVars, fanVars, bridgeVars, solvedVars, recommendVars, histogramVars, performanceVars, defaultsVars, imageVars, registryVars, lifecycleVars, identityVars, recentVars, conversationVars, statsVars>>

(***************************************************************************)
(* Bounds                                                                  *)
(***************************************************************************)
MaxCalls == 2
MaxHandles == 3
MaxInvocations == 2
MaxParts == 3
MaxSubs == 3
MaxCount == 2
MaxChanges == 3
MaxDispatches == 2
MaxPings == 2
MaxContests == 3

(***************************************************************************)
(* Upstream API client layer (api_clients/)                                *)
(***************************************************************************)
Apis == {"codeforces", "leetcode", "clist"}

\* What the transport can deliver for one request: an HTTP status, or no
\* response at all (httpx.RequestError: connect failure, timeout).
HttpStatuses == {200, 404, 500}
Transports == [kind : {"response"}, status : HttpStatuses]
                  \cup {[kind |-> "request_error", status |-> 0]}

\* What the body of a response decodes to.
\*   "ok"        a JSON object carrying the requested payload
\*   "app_error" a JSON object carrying an application-level error
\*   "not_json"  a body that is not JSON (resp.json() raises)
Bodies == {"ok", "app_error", "not_json"}

NoResp == [kind |-> "none", status |-> 0, body |-> "none"]
NoOutcome == [tag |-> "none", exc |-> "none", code |-> 0, msg |-> "none", value |-> "none"]

Return(v) == [tag |-> "return", exc |-> "none", code |-> 0, msg |-> "none", value |-> v]
McpError(c, m) == [tag |-> "raise", exc |-> "McpError", code |-> c, msg |-> m, value |-> "none"]
Raise(e) == [tag |-> "raise", exc |-> e, code |-> 0, msg |-> "none", value |-> "none"]

Is2xx(status) == status \in 200..299

\* ApiClient.get / ApiClient.post after the awaited request has ended:
\* raise_for_status and the two except clauses.
ApiClientResult(resp) ==
    IF resp.kind = "request_error"
    THEN McpError(500, "Network connection error")
    ELSE IF ~Is2xx(resp.status)
         THEN McpError(resp.status, "API Error")
         ELSE Return(resp.body)

\* CodeforcesAPI.query: decode the body, check the status flag.
CodeforcesQuery(resp) ==
    LET r == ApiClientResult(resp) IN
    IF r.tag = "raise" THEN r
    ELSE IF r.value = "not_json" THEN Raise("JSONDecodeError")
    ELSE IF r.value = "app_error" THEN McpError(400, "Codeforces Error: comment")
    ELSE Return("result")

\* LeetCodeAPI._send_query: decode the body, check the errors array.
LeetCodeSendQuery(resp) ==
    LET r == ApiClientResult(resp) IN
    IF r.tag = "raise" THEN r
    ELSE IF r.value = "not_json" THEN Raise("JSONDecodeError")
    ELSE IF r.value = "app_error" THEN McpError(400, "LeetCode API Error: errors")
    ELSE Return("data")

\* CListAPI.get_upcoming_contests: decode the body, take "objects" or [].
CListGetUpcomingContests(resp) ==
    LET r == ApiClientResult(resp) IN
    IF r.tag = "raise" THEN r
    ELSE IF r.value = "not_json" THEN Raise("JSONDecodeError")
    ELSE IF r.value = "app_error" THEN Return("empty_list")
    ELSE Return("objects")

PlatformResult(api, resp) ==
    CASE api = "codeforces" -> CodeforcesQuery(resp)
      [] api = "leetcode"   -> LeetCodeSendQuery(resp)
      [] api = "clist"      -> CListGetUpcomingContests(resp)

\* A faulty variant of AfterRequest: a failed request is sent again.
RetryOnFailure(resp) ==
    IF ApiClientResult(resp).tag = "raise" /\ clRequests < 3 THEN "send" ELSE "finish"

\* Where the client goes once the awaited request has ended: the except
\* clauses raise, nothing loops back to the request.
AfterRequest(resp) == "finish"

ClientInit ==
    /\ clApi = "none"
    /\ clPc = "idle"
    /\ clResp = NoResp
    /\ clRequests = 0
    /\ clOutcome = NoOutcome
    /\ clCalls = 0

ClientDormant == ClientInit

\* A handler calls one of the platform clients.
ClientInvoke(api) ==
    /\ clPc \in {"idle", "done"}
    /\ clCalls < MaxCalls
    /\ clApi' = api
    /\ clPc' = "send"
    /\ clResp' = NoResp
    /\ clRequests' = 0
    /\ clOutcome' = NoOutcome
    /\ UNCHANGED <<clCalls, notClient>>

\* await client.get(...) / client.post(...): the request leaves.
ClientSend ==
    /\ clPc = "send"
    /\ clRequests' = clRequests + 1
    /\ clPc' = "wait"
    /\ UNCHANGED <<clApi, clResp, clOutcome, clCalls, notClient>>

\* The awaited request ends: a response with a status, or a transport error.
ClientRespond(t, b) ==
    /\ clPc = "wait"
    /\ clResp' = [kind |-> t.kind, status |-> t.status,
                   body |-> IF t.kind = "request_error" THEN "none" ELSE b]
    /\ clPc' = AfterRequest(clResp')
    /\ UNCHANGED <<clApi, clRequests, clOutcome, clCalls, notClient>>

\* The rest of the client call: status check, decoding, payload check.
ClientFinish ==
    /\ clPc = "finish"
    /\ clOutcome' = PlatformResult(clApi, clResp)
    /\ clPc' = "done"
    /\ clCalls' = clCalls + 1
    /\ UNCHANGED <<clApi, clResp, clRequests, notClient>>

ClientNext ==
    \/ \E api \in Apis : ClientInvoke(api)
    \/ ClientSend
    \/ \E t \in Transports, b \in Bodies : ClientRespond(t, b)
    \/ ClientFinish

(***************************************************************************)
(* compare_codeforces_users (tools/codeforces_tools.py)                    *)
(***************************************************************************)
HandleUniverse == <<"A", "B", "C", "D", "E">>
Handles == {HandleUniverse[i] : i \in 1..MaxHandles}

Range(seq) == {seq[i] : i \in 1..Len(seq)}

\* The handle lists a request can carry: the sub-lists of the universe.
HandleLists ==
    {SelectSeq(SubSeq(HandleUniverse, 1, MaxHandles), LAMBDA h : h \in S) :
        S \in SUBSET Handles}

\* A user as user.info reports it, after the handler's .get defaults
\* (rating 0, maxRating 0, rank 'Unrated' for a user without a rating).
Profiles ==
    {[rating |-> 0,    maxRating |-> 0,    rank |-> "Unrated"],
     [rating |-> 1200, maxRating |-> 1500, rank |-> "pupil"],
     [rating |-> 1500, maxRating |-> 1500, rank |-> "specialist"]}

\* What user.info can know about the requested handles: a profile for some
\* of them, nothing for the others.
KnownUsers == UNION {[S -> Profiles] : S \in SUBSET Handles}

User(h, p) == [handle |-> h, rating |-> p.rating, maxRating |-> p.maxRating, rank |-> p.rank]

\* The stand-in for the string 'N/A' in a numeric column.
NA == -1

\* Outcomes of the per-user calls: the call raised, or returned a list of
\* which the handler only uses a count.
CallFailed == -2
NotCalled == -3
ContestCounts == {0, 2}
AcceptedCounts == {0, 3}

NoCmpResult == [kind |-> "none", rows |-> <<>>, missing |-> <<>>,
                winner |-> "none", gap |-> 0, mostActive |-> "none"]

TextResult(k, miss) == [kind |-> k, rows |-> <<>>, missing |-> miss,
                        winner |-> "none", gap |-> 0, mostActive |-> "none"]

\* metrics of a user whose two enrichment calls succeeded.
FullRow(user, contests, accepted) ==
    [handle |-> user.handle, current_rating |-> user.rating,
     max_rating |-> user.maxRating, rank |-> user.rank,
     contests_count |-> contests, recent_activity |-> accepted, error |-> FALSE]

\* A faulty variant of DegradedRow: the except branch forgets the marker.
DegradedRowNoMarker(user) ==
    [handle |-> user.handle, current_rating |-> user.rating,
     max_rating |-> user.maxRating, rank |-> user.rank,
     contests_count |-> NA, recent_activity |-> NA, error |-> FALSE]

\* metrics built by the except branch of the per-user try block.
DegradedRow(user) ==
    [handle |-> user.handle, current_rating |-> user.rating,
     max_rating |-> user.maxRating, rank |-> user.rank,
     contests_count |-> NA, recent_activity |-> NA, error |-> TRUE]

\* list.sort(key=current_rating, reverse=True): stable, descending.
RECURSIVE InsertByRatingDesc(_, _)
InsertByRatingDesc(sorted, row) ==
    IF sorted = <<>> THEN <<row>>
    ELSE IF Head(sorted).current_rating >= row.current_rating
         THEN <<Head(sorted)>> \o InsertByRatingDesc(Tail(sorted), row)
         ELSE <<row>> \o sorted

RECURSIVE SortByRatingDesc(_)
SortByRatingDesc(rows) ==
    IF rows = <<>> THEN <<>>
    ELSE InsertByRatingDesc(SortByRatingDesc(SubSeq(rows, 1, Len(rows) - 1)),
                            rows[Len(rows)])

\* key of max(..., key=...) for the 'most active solver' line.
ActivityKey(row) == IF row.recent_activity = NA THEN 0 ELSE row.recent_activity

\* max(comparison_data, key=ActivityKey): the first row with the largest key.
MostActive(rows) ==
    LET best == CHOOSE i \in 1..Len(rows) :
                  /\ \A j \in 1..Len(rows) : ActivityKey(rows[j]) <= ActivityKey(rows[i])
                  /\ \A j \in 1..(i - 1) : ActivityKey(rows[j]) < ActivityKey(rows[i])
    IN rows[best]

\* A faulty variant of CompareReport: the rows are left in request order.
CompareReportUnsorted(data) ==
    LET rows == data
        active == MostActive(rows)
    IN [kind |-> "comparison", rows |-> rows, missing |-> <<>>,
        winner |-> rows[1].handle,
        gap |-> rows[1].current_rating - rows[Len(rows)].current_rating,
        mostActive |-> IF active.recent_activity = NA THEN "none" ELSE active.handle]

\* The report: the sorted rows, the final verdict, the key insights.
CompareReport(data) ==
    LET rows == SortByRatingDesc(data)
        active == MostActive(rows)
    IN [kind |-> "comparison", rows |-> rows, missing |-> <<>>,
        winner |-> rows[1].handle,
        gap |-> rows[1].current_rating - rows[Len(rows)].current_rating,
        mostActive |-> IF active.recent_activity = NA THEN "none" ELSE active.handle]

CompareInit ==
    /\ cmpPc = "idle"
    /\ cmpHandles = <<>>
    /\ cmpUsersInfo = <<>>
    /\ cmpIdx = 0
    /\ cmpChanges = NotCalled
    /\ cmpData = <<>>
    /\ cmpUpstream = [h \in Handles |-> [rating |-> NotCalled, status |-> NotCalled]]
    /\ cmpResult = NoCmpResult

CompareDormant == CompareInit

\* Entry: fewer than two handles is answered at once, otherwise the
\* user.info call is awaited.
CompareStart(hs) ==
    /\ cmpPc = "idle"
    /\ cmpHandles' = hs
    /\ IF Len(hs) < 2
       THEN cmpPc' = "done" /\ cmpResult' = TextResult("too_few", <<>>)
       ELSE cmpPc' = "user_info" /\ UNCHANGED cmpResult
    /\ UNCHANGED <<cmpUsersInfo, cmpIdx, cmpChanges, cmpData, cmpUpstream, notCompare>>

\* user.info raised: the outer except turns it into the failure text.
CompareUserInfoFails ==
    /\ cmpPc = "user_info"
    /\ cmpPc' = "done"
    /\ cmpResult' = TextResult("failed", <<>>)
    /\ UNCHANGED <<cmpHandles, cmpUsersInfo, cmpIdx, cmpChanges, cmpData, cmpUpstream, notCompare>>

\* user.info returned the users the platform knows, in request order.
CompareUserInfoReturns(known) ==
    /\ cmpPc = "user_info"
    /\ DOMAIN known \subseteq Range(cmpHandles)
    /\ LET found == SelectSeq(cmpHandles, LAMBDA h : h \in DOMAIN known)
           users_info == [i \in 1..Len(found) |-> User(found[i], known[found[i]])]
           missing_handles == SelectSeq(cmpHandles, LAMBDA h : h \notin DOMAIN known)
       IN /\ cmpUsersInfo' = users_info
          /\ IF missing_handles # <<>>
             THEN /\ cmpPc' = "done"
                  /\ cmpResult' = TextResult("not_found", missing_handles)
                  /\ UNCHANGED cmpIdx
             ELSE IF users_info = <<>>
             THEN /\ cmpPc' = "done"
                  /\ cmpResult' = TextResult("no_valid", <<>>)
                  /\ UNCHANGED cmpIdx
             ELSE /\ cmpPc' = "rating"
                  /\ cmpIdx' = 1
                  /\ UNCHANGED cmpResult
    /\ UNCHANGED <<cmpHandles, cmpChanges, cmpData, cmpUpstream, notCompare>>

\* The end of one loop iteration: the next user, or sort and report.
CompareAdvance(data) ==
    /\ cmpData' = data
    /\ cmpChanges' = NotCalled
    /\ IF cmpIdx < Len(cmpUsersInfo)
       THEN cmpIdx' = cmpIdx + 1 /\ cmpPc' = "rating" /\ UNCHANGED cmpResult
       ELSE cmpPc' = "done" /\ cmpResult' = CompareReport(data) /\ UNCHANGED cmpIdx

\* await get_user_rating_changes(handle) ended.
CompareRatingCallEnds(outcome) ==
    /\ cmpPc = "rating"
    /\ LET user == cmpUsersInfo[cmpIdx] IN
       /\ cmpUpstream' = [cmpUpstream EXCEPT ![user.handle].rating = outcome]
       /\ IF outcome = CallFailed
          THEN CompareAdvance(Append(cmpData, DegradedRow(user)))
          ELSE /\ cmpChanges' = outcome
               /\ cmpPc' = "status"
               /\ UNCHANGED <<cmpData, cmpIdx, cmpResult>>
    /\ UNCHANGED <<cmpHandles, cmpUsersInfo, notCompare>>

\* await get_user_status(handle, count=50) ended.
CompareStatusCallEnds(outcome) ==
    /\ cmpPc = "status"
    /\ LET user == cmpUsersInfo[cmpIdx] IN
       /\ cmpUpstream' = [cmpUpstream EXCEPT ![user.handle].status = outcome]
       /\ IF outcome = CallFailed
          THEN CompareAdvance(Append(cmpData, DegradedRow(user)))
          ELSE CompareAdvance(Append(cmpData, FullRow(user, cmpChanges, outcome)))
    /\ UNCHANGED <<cmpHandles, cmpUsersInfo, notCompare>>

CompareNext ==
    \/ \E hs \in HandleLists : CompareStart(hs)
    \/ CompareUserInfoFails
    \/ \E known \in KnownUsers : CompareUserInfoReturns(known)
    \/ \E o \in ContestCounts \cup {CallFailed} : CompareRatingCallEnds(o)
    \/ \E o \in AcceptedCounts \cup {CallFailed} : CompareStatusCallEnds(o)

(***************************************************************************)
(* Concurrent tool invocations: plot_rating_graph (tools/graphing_tools.py)*)
(* and generate_comparison_card (tools/codeforces_tools.py).  The server   *)
(* runs each tool call as a task of one event loop, so an invocation that  *)
(* is suspended at an await can be overtaken by another one.               *)
(***************************************************************************)
Invocations == 1..MaxInvocations

\* What the upstream answers for one handle of a fan-out:
\*   "ok"    data came back
\*   "empty" an empty list came back (no such user / no rating changes)
\*   "fail"  the call raised
FetchOutcomes == {"ok", "empty", "fail"}

\* What a gather over a list of handles can end with: one outcome per handle.
GatherOutcomes == UNION {[S -> FetchOutcomes] : S \in SUBSET Handles}

NoImage == [fig |-> 0, lines |-> {}]
NoToolResult == [kind |-> "none", code |-> 0, caption |-> <<>>, image |-> NoImage,
                 markers |-> {}]

\* raise McpError(ErrorData(code=...)) leaving the tool.
ToolError(c) == [kind |-> "error", code |-> c, caption |-> <<>>, image |-> NoImage,
                 markers |-> {}]

\* _create_image_response(text, image_base64): a caption and a PNG.  The
\* caption names handles and nothing else: neither tool writes a marker for
\* a handle it could not draw.
CreateImageResponse(captionHandles, img) ==
    [kind |-> "image", code |-> 0, caption |-> captionHandles, image |-> img,
     markers |-> {}]

\* pyplot: the current figure is the most recently opened one still open.
CurrentFigure(open) == open[Len(open)]

\* plt.close(): close the current figure, if there is one.
PltClose(open) == IF open = <<>> THEN open ELSE SubSeq(open, 1, Len(open) - 1)

ToolsInit ==
    /\ invPc = [i \in Invocations |-> "idle"]
    /\ invTool = [i \in Invocations |-> "none"]
    /\ invHandles = [i \in Invocations |-> <<>>]
    /\ invFig = [i \in Invocations |-> 0]
    /\ invIdx = [i \in Invocations |-> 0]
    /\ invData = [i \in Invocations |-> <<>>]
    /\ invFetch = [i \in Invocations |-> [h \in Handles |-> "none"]]
    /\ invResult = [i \in Invocations |-> NoToolResult]
    /\ invSaved = [i \in Invocations |-> 0]
    /\ invClosed = [i \in Invocations |-> {}]
    /\ figLines = <<>>
    /\ gcf = <<>>

ToolsDormant == ToolsInit

\* plot_rating_graph up to its await: resolve the handles, plt.subplots()
\* opens a figure and makes it current, the gather is awaited.
PlotStart(i, hs) ==
    /\ invPc[i] = "idle"
    /\ hs # <<>>
    /\ LET fig == Len(figLines) + 1 IN
       /\ figLines' = Append(figLines, {})
       /\ gcf' = Append(gcf, fig)
       /\ invFig' = [invFig EXCEPT ![i] = fig]
    /\ invTool' = [invTool EXCEPT ![i] = "plot_rating_graph"]
    /\ invHandles' = [invHandles EXCEPT ![i] = hs]
    /\ invPc' = [invPc EXCEPT ![i] = "await"]
    /\ UNCHANGED <<invIdx, invData, invFetch, invResult, invSaved, invClosed, notTools>>

\* plot_rating_graph from the end of the gather to its return.
PlotGatherEnds(i, outcome) ==
    /\ invPc[i] = "await"
    /\ invTool[i] = "plot_rating_graph"
    /\ DOMAIN outcome = Range(invHandles[i])
    /\ invFetch' = [invFetch EXCEPT ![i] =
                      [h \in Handles |-> IF h \in DOMAIN outcome THEN outcome[h] ELSE "none"]]
    /\ invPc' = [invPc EXCEPT ![i] = "done"]
    /\ IF (\E h \in DOMAIN outcome : outcome[h] = "fail")
          \/ (\A h \in DOMAIN outcome : outcome[h] = "empty")
       THEN \* the gather raised, or the 404 was raised inside the try:
            \* except: plt.close(); raise McpError(code=500)
            /\ gcf' = PltClose(gcf)
            /\ invClosed' = [invClosed EXCEPT ![i] =
                               IF gcf = <<>> THEN {} ELSE {CurrentFigure(gcf)}]
            /\ invResult' = [invResult EXCEPT ![i] = ToolError(500)]
            /\ UNCHANGED <<figLines, invSaved>>
       ELSE \* ax.plot on this invocation's axes for every non-empty history
            LET plotted == {h \in DOMAIN outcome : outcome[h] = "ok"}
                drawn == [figLines EXCEPT ![invFig[i]] = plotted]
                \* plt.grid / plt.tight_layout / plt.savefig act on the
                \* current figure; pyplot opens a new one if none is open
                lines == IF gcf = <<>> THEN Append(drawn, {}) ELSE drawn
                open == IF gcf = <<>> THEN <<Len(lines)>> ELSE gcf
                cur == CurrentFigure(open)
            IN /\ figLines' = lines
               /\ invSaved' = [invSaved EXCEPT ![i] = cur]
               /\ gcf' = PltClose(open)
               /\ invClosed' = [invClosed EXCEPT ![i] = {cur}]
               /\ invResult' = [invResult EXCEPT ![i] =
                     CreateImageResponse(invHandles[i],
                                         [fig |-> cur, lines |-> lines[cur]])]
    /\ UNCHANGED <<invTool, invHandles, invFig, invIdx, invData, notTools>>

\* generate_comparison_card up to its first await.
CardStart(i, hs) ==
    /\ invPc[i] = "idle"
    /\ invTool' = [invTool EXCEPT ![i] = "generate_comparison_card"]
    /\ IF Len(hs) < 2
       THEN /\ invPc' = [invPc EXCEPT ![i] = "done"]
            /\ invResult' = [invResult EXCEPT ![i] = ToolError(400)]
            /\ invHandles' = [invHandles EXCEPT ![i] = hs]
            /\ UNCHANGED invIdx
       ELSE /\ invPc' = [invPc EXCEPT ![i] = "await"]
            /\ invHandles' = [invHandles EXCEPT ![i] =
                                IF Len(hs) > 4 THEN SubSeq(hs, 1, 4) ELSE hs]
            /\ invIdx' = [invIdx EXCEPT ![i] = 1]
            /\ UNCHANGED invResult
    /\ UNCHANGED <<invFig, invData, invFetch, invSaved, invClosed, figLines, gcf, notTools>>

\* generate_comparison_card: the gather of the three calls for one handle
\* ended; the next handle is fetched, or the card is drawn and returned.
CardGatherEnds(i, outcome) ==
    /\ invPc[i] = "await"
    /\ invTool[i] = "generate_comparison_card"
    /\ LET h == invHandles[i][invIdx[i]]
           user_data == IF outcome = "ok" THEN Append(invData[i], h) ELSE invData[i]
       IN /\ invFetch' = [invFetch EXCEPT ![i][h] = outcome]
          /\ IF outcome = "fail"
             THEN \* the gather raised: except Exception -> McpError(code=500)
                  /\ invPc' = [invPc EXCEPT ![i] = "done"]
                  /\ invResult' = [invResult EXCEPT ![i] = ToolError(500)]
                  /\ UNCHANGED <<invIdx, invData>>
             ELSE IF invIdx[i] < Len(invHandles[i])
             THEN /\ invIdx' = [invIdx EXCEPT ![i] = invIdx[i] + 1]
                  /\ invData' = [invData EXCEPT ![i] = user_data]
                  /\ UNCHANGED <<invPc, invResult>>
             ELSE /\ invPc' = [invPc EXCEPT ![i] = "done"]
                  /\ invData' = [invData EXCEPT ![i] = user_data]
                  /\ invResult' = [invResult EXCEPT ![i] =
                        IF user_data = <<>>
                        THEN \* the 404 is raised inside the try and re-raised as 500
                             ToolError(500)
                        ELSE CreateImageResponse(user_data,
                                                 [fig |-> 0, lines |-> Range(user_data)])]
                  /\ UNCHANGED invIdx
    /\ UNCHANGED <<invTool, invHandles, invFig, invSaved, invClosed, figLines, gcf, notTools>>

ToolsNext ==
    \/ \E i \in Invocations, hs \in HandleLists : PlotStart(i, hs)
    \/ \E i \in Invocations, outcome \in GatherOutcomes : PlotGatherEnds(i, outcome)
    \/ \E i \in Invocations, hs \in HandleLists : CardStart(i, hs)
    \/ \E i \in Invocations, outcome \in FetchOutcomes : CardGatherEnds(i, outcome)

(***************************************************************************)
(* The order in which the handlers issue and await their upstream calls.   *)
(* A handler is a sequence of awaits; each await is either one call or an  *)
(* asyncio.gather over several calls, which are then in flight together.   *)
(***************************************************************************)
FanHandlers == {"compare_codeforces_users", "generate_comparison_card",
                "generate_profile_card", "generate_achievement_card",
                "recommend_problems", "plot_rating_graph"}

MultiHandleHandlers == {"compare_codeforces_users", "generate_comparison_card",
                        "plot_rating_graph"}

Call(op, h) == [op |-> op, handle |-> h]
UserInfo(h) == Call("user.info", h)
UserRating(h) == Call("user.rating", h)
UserStatus(h) == Call("user.status", h)
Problemset == Call("problemset.problems", "*")

\* compare_codeforces_users: user.info for all handles, then for each user
\* `await get_user_rating_changes` followed by `await get_user_status`.
CompareAwaits(hs) ==
    [k \in 1..(1 + 2 * Len(hs)) |->
        IF k = 1 THEN {UserInfo("*")}
        ELSE IF k % 2 = 0 THEN {UserRating(hs[k \div 2])}
        ELSE {UserStatus(hs[k \div 2])}]

\* generate_comparison_card: for each handle one gather of three calls.
ComparisonCardAwaits(hs) ==
    [k \in 1..Len(hs) |-> {UserInfo(hs[k]), UserRating(hs[k]), UserStatus(hs[k])}]

\* generate_profile_card / generate_achievement_card: one gather of three.
CardAwaits(h) == <<{UserInfo(h), UserRating(h), UserStatus(h)}>>

\* recommend_problems: user.info, then a gather of submissions and problem set.
RecommendAwaits(h) == <<{UserInfo(h)}, {UserStatus(h), Problemset}>>

\* plot_rating_graph: one gather over all handles.
PlotRatingAwaits(hs) == <<{UserRating(hs[k]) : k \in 1..Len(hs)}>>

Awaits(handler, hs) ==
    CASE handler = "compare_codeforces_users"  -> CompareAwaits(hs)
      [] handler = "generate_comparison_card"  -> ComparisonCardAwaits(hs)
      [] handler = "generate_profile_card"     -> CardAwaits(hs[1])
      [] handler = "generate_achievement_card" -> CardAwaits(hs[1])
      [] handler = "recommend_problems"        -> RecommendAwaits(hs[1])
      [] handler = "plot_rating_graph"         -> PlotRatingAwaits(hs)

\* The calls whose arguments do not depend on the answer of another call of
\* the same request: every call but the leading user.info of
\* compare_codeforces_users and recommend_problems.
SiblingCalls(handler, hs) ==
    LET aw == Awaits(handler, hs)
        first == IF handler \in {"compare_codeforces_users", "recommend_problems"}
                 THEN 2 ELSE 1
    IN UNION {aw[k] : k \in first..Len(aw)}

\* Where a failed call sends the handler: compare_codeforces_users catches a
\* failure of a per-user call and goes on with the next user; everywhere
\* else the exception leaves the handler's try block.
AfterFailedAwait(handler, hs, k) ==
    IF handler = "compare_codeforces_users" /\ k > 1
    THEN (IF k % 2 = 0 THEN k + 2 ELSE k + 1)
    ELSE 0

FanInit ==
    /\ fanHandler = "none"
    /\ fanHandles = <<>>
    /\ fanPc = "idle"
    /\ fanBatch = 0
    /\ fanIssued = {}
    /\ fanEnded = {}

FanDormant == FanInit

\* Move the handler to its await number k: its calls are issued; past the
\* last await the handler merges the answers.
FanGoTo(handler, hs, k) ==
    IF k > Len(Awaits(handler, hs))
    THEN /\ fanPc' = "merging"
         /\ UNCHANGED <<fanBatch, fanIssued>>
    ELSE /\ fanPc' = "awaiting"
         /\ fanBatch' = k
         /\ fanIssued' = fanIssued \cup Awaits(handler, hs)[k]

\* The handler runs up to its first await.
FanStart(handler, hs) ==
    /\ fanPc = "idle"
    /\ IF handler \in MultiHandleHandlers
       THEN Len(hs) >= (IF handler = "plot_rating_graph" THEN 1 ELSE 2)
       ELSE Len(hs) = 1
    /\ fanHandler' = handler
    /\ fanHandles' = hs
    /\ fanIssued' = Awaits(handler, hs)[1]
    /\ fanBatch' = 1
    /\ fanPc' = "awaiting"
    /\ UNCHANGED <<fanEnded, notFan>>

\* One call in flight ends with an answer.
FanCallReturns(c) ==
    /\ c \in fanIssued \ fanEnded
    /\ fanEnded' = fanEnded \cup {c}
    /\ UNCHANGED <<fanHandler, fanHandles, fanPc, fanBatch, fanIssued, notFan>>

\* One call in flight raises.  The await it belongs to raises in the handler
\* (if the handler is still at it); the other calls in flight are not
\* cancelled.
FanCallRaises(c) ==
    /\ c \in fanIssued \ fanEnded
    /\ fanEnded' = fanEnded \cup {c}
    /\ IF fanPc = "awaiting" /\ c \in Awaits(fanHandler, fanHandles)[fanBatch]
       THEN LET k == AfterFailedAwait(fanHandler, fanHandles, fanBatch) IN
            IF k = 0
            THEN fanPc' = "failed" /\ UNCHANGED <<fanBatch, fanIssued>>
            ELSE FanGoTo(fanHandler, fanHandles, k)
       ELSE UNCHANGED <<fanPc, fanBatch, fanIssued>>
    /\ UNCHANGED <<fanHandler, fanHandles, notFan>>

\* All calls of the current await have returned: the handler resumes and
\* runs to its next await, or to the merge.
FanResume ==
    /\ fanPc = "awaiting"
    /\ Awaits(fanHandler, fanHandles)[fanBatch] \subseteq fanEnded
    /\ FanGoTo(fanHandler, fanHandles, fanBatch + 1)
    /\ UNCHANGED <<fanHandler, fanHandles, fanEnded, notFan>>

FanNext ==
    \/ \E handler \in FanHandlers, hs \in HandleLists : FanStart(handler, hs)
    \/ \E h \in Handles \cup {"*"},
          op \in {"user.info", "user.rating", "user.status", "problemset.problems"} :
          FanCallReturns(Call(op, h))
    \/ \E h \in Handles \cup {"*"},
          op \in {"user.info", "user.rating", "user.status", "problemset.problems"} :
          FanCallRaises(Call(op, h))
    \/ FanResume

(***************************************************************************)
(* The Gemini/MCP bridge (gemini_bridge.py)                                *)
(***************************************************************************)
TextContent(t) == [type |-> "text", text |-> t, data |-> "", mimeType |-> ""]
ImageContent(d) == [type |-> "image", text |-> "", data |-> d, mimeType |-> "image/png"]

\* The parts a handler can put into its result.
ContentParts == {TextContent("caption"), TextContent("note"),
                 ImageContent("PNG-1"), ImageContent("PNG-2")}

\* The results a handler can return: ordered sequences of parts.
ToolContents == UNION {[1..n -> ContentParts] : n \in 0..MaxParts}

\* "\n".join(text_parts)
RECURSIVE JoinLines(_)
JoinLines(texts) ==
    IF texts = <<>> THEN ""
    ELSE IF Len(texts) = 1 THEN texts[1]
    ELSE texts[1] \o "\n" \o JoinLines(Tail(texts))

\* call_mcp_tool on a list content: the texts joined, the images counted.
BridgeResponse(content) ==
    LET texts == SelectSeq(content, LAMBDA part : part.type = "text")
        text_parts == [k \in 1..Len(texts) |-> texts[k].text]
        image_count == Len(SelectSeq(content, LAMBDA part : part.type = "image"))
        joined == JoinLines(text_parts)
        response == IF image_count > 0
                    THEN joined \o "\n[Image generated: " \o ToString(image_count)
                                \o " chart(s)]"
                    ELSE joined
    IN IF response # "" THEN response ELSE "No content returned"

\* Tool names a function call can carry, and those with a registered
\* handler (get_upsolve_targets is advertised to the model only).
BridgeToolNames == {"get_codeforces_user_stats", "plot_rating_graph",
                    "get_upsolve_targets"}
RegisteredTools == {"get_codeforces_user_stats", "plot_rating_graph"}

\* str(e) of what a handler raises.
HandlerFaults == {"Error fetching user stats: Network connection error",
                  "No handles provided, and no default handle is configured."}

\* The except clause of call_mcp_tool: the failure becomes the returned
\* string.
BridgeFailure(tool_name, e) ==
    <<TextContent("Error calling MCP tool " \o tool_name \o ": " \o e)>>

BridgeInit ==
    /\ brPc = "idle"
    /\ brContent = <<>>
    /\ brOutput = <<>>
    /\ brTool = "none"
    /\ brHandlerRan = FALSE
    /\ brFault = "none"

BridgeDormant == BridgeInit

\* call_mcp_tool awaits the tool manager.
BridgeCallTool(tool_name) ==
    /\ brPc = "idle"
    /\ brTool' = tool_name
    /\ brPc' = "calling"
    /\ UNCHANGED <<brContent, brOutput, brHandlerRan, brFault, notBridge>>

\* The tool manager knows no tool of that name: it raises without calling
\* anything, and call_mcp_tool returns the failure as a string.
BridgeToolNotFound ==
    /\ brPc = "calling"
    /\ brTool \notin RegisteredTools
    /\ brFault' = "not_found"
    /\ brOutput' = BridgeFailure(brTool, "Unknown tool: " \o brTool)
    /\ brPc' = "done"
    /\ UNCHANGED <<brContent, brTool, brHandlerRan, notBridge>>

\* The handler ran and raised: call_mcp_tool returns the failure as a
\* string.
BridgeToolRaises(e) ==
    /\ brPc = "calling"
    /\ brTool \in RegisteredTools
    /\ brHandlerRan' = TRUE
    /\ brFault' = "handler_failed"
    /\ brOutput' = BridgeFailure(brTool, e)
    /\ brPc' = "done"
    /\ UNCHANGED <<brContent, brTool, notBridge>>

\* The handler returned: tool_result.content holds its parts.
BridgeToolReturns(content) ==
    /\ brPc = "calling"
    /\ brTool \in RegisteredTools
    /\ brHandlerRan' = TRUE
    /\ brContent' = content
    /\ brPc' = "returned"
    /\ UNCHANGED <<brOutput, brTool, brFault, notBridge>>

\* The rest of call_mcp_tool: one string goes back to the caller.
BridgeConvert ==
    /\ brPc = "returned"
    /\ brOutput' = <<TextContent(BridgeResponse(brContent))>>
    /\ brPc' = "done"
    /\ UNCHANGED <<brContent, brTool, brHandlerRan, brFault, notBridge>>

BridgeNext ==
    \/ \E tool_name \in BridgeToolNames : BridgeCallTool(tool_name)
    \/ BridgeToolNotFound
    \/ \E e \in HandlerFaults : BridgeToolRaises(e)
    \/ \E content \in ToolContents : BridgeToolReturns(content)
    \/ BridgeConvert

(***************************************************************************)
(* Deriving the solved problems from a submission list                     *)
(* (tools/codeforces_tools.py, tools/graphing_tools.py)                    *)
(***************************************************************************)
\* The stand-in for a problem without a 'rating' key.
NoRating == 0

Problem(c, i, r) == [contestId |-> c, index |-> i, rating |-> r]

\* Problems of the platform: a contest identifier, an index (a letter,
\* possibly followed by a digit) and possibly a rating.
PlatformProblems ==
    {Problem(1, "A", 1050), Problem(1, "A1", 999),
     Problem(11, "A", NoRating), Problem(11, "A1", 1300)}

Verdicts == {"OK", "WRONG_ANSWER"}
Times == {100, 200}

Submissions == [problem : PlatformProblems, verdict : Verdicts,
                creationTimeSeconds : Times]

SubmissionLists == UNION {[1..n -> Submissions] : n \in 0..MaxSubs}

Accepted(subs) == SelectSeq(subs, LAMBDA sub : sub.verdict = "OK")

\* A faulty variant of JoinedId: the index is left out of the key.
ContestOnlyId(problem) == ToString(problem.contestId)

\* f"{contestId}{index}" (recommend_problems)
JoinedId(problem) == ToString(problem.contestId) \o problem.index

\* f"{contestId}-{index}" (all other handlers)
DashedId(problem) == ToString(problem.contestId) \o "-" \o problem.index

\* recommend_problems: solved_ids
RecommendSolvedIds(subs) ==
    {JoinedId(Accepted(subs)[k].problem) : k \in 1..Len(Accepted(subs))}

\* generate_profile_card, generate_achievement_card,
\* generate_comparison_card: the set of dashed ids of accepted submissions
CardSolvedIds(subs) ==
    {DashedId(Accepted(subs)[k].problem) : k \in 1..Len(Accepted(subs))}

\* sorted(submissions, key=creationTimeSeconds, reverse=True): stable
RECURSIVE InsertByTimeDesc(_, _)
InsertByTimeDesc(sorted, sub) ==
    IF sorted = <<>> THEN <<sub>>
    ELSE IF Head(sorted).creationTimeSeconds >= sub.creationTimeSeconds
         THEN <<Head(sorted)>> \o InsertByTimeDesc(Tail(sorted), sub)
         ELSE <<sub>> \o sorted

RECURSIVE SortByTimeDesc(_)
SortByTimeDesc(subs) ==
    IF subs = <<>> THEN <<>>
    ELSE InsertByTimeDesc(SortByTimeDesc(SubSeq(subs, 1, Len(subs) - 1)),
                          subs[Len(subs)])

\* The scan with a seen_problems set: the submissions that are kept.
\* `rated` tells whether a problem without a rating is skipped.
RECURSIVE ScanSeen(_, _, _)
ScanSeen(subs, seen, rated) ==
    IF subs = <<>> THEN <<>>
    ELSE LET sub == Head(subs)
             problem_id == DashedId(sub.problem)
             keep == /\ sub.verdict = "OK"
                     /\ problem_id \notin seen
                     /\ (rated => sub.problem.rating # NoRating)
         IN IF keep
            THEN <<sub>> \o ScanSeen(Tail(subs), seen \cup {problem_id}, rated)
            ELSE ScanSeen(Tail(subs), seen, rated)

\* A faulty variant of SolvedSubmissions: the scan runs in the order fetched.
SolvedSubmissionsUnsorted(subs) == ScanSeen(subs, {}, FALSE)

\* get_solved_problems: solved_submissions
SolvedSubmissions(subs) == ScanSeen(SortByTimeDesc(subs), {}, FALSE)

\* get_solved_rating_histogram / plot_solved_rating_distribution: the
\* submissions whose problem enters a bin / solved_ratings
RatedSolved(subs) == ScanSeen(subs, {}, TRUE)

SolvedInit ==
    /\ solSubs \in SubmissionLists
    /\ solHandler = "none"
    /\ solCount = 0

SolvedDormant ==
    /\ solSubs = <<>>
    /\ solHandler = "none"
    /\ solCount = 0

\* The handler has scanned the list and holds its number of solved problems.
Scanned(handler, n) ==
    /\ solHandler' = handler
    /\ solCount' = n
    /\ UNCHANGED <<solSubs, notSolved>>

GetSolvedProblems ==
    /\ solHandler = "none"
    /\ Scanned("get_solved_problems", Len(SolvedSubmissions(solSubs)))

GetSolvedRatingHistogram ==
    /\ solHandler = "none"
    /\ Scanned("get_solved_rating_histogram", Len(RatedSolved(solSubs)))

PlotSolvedRatingDistribution ==
    /\ solHandler = "none"
    /\ Scanned("plot_solved_rating_distribution", Len(RatedSolved(solSubs)))

RecommendProblems ==
    /\ solHandler = "none"
    /\ Scanned("recommend_problems", Cardinality(RecommendSolvedIds(solSubs)))

GenerateProfileCard ==
    /\ solHandler = "none"
    /\ Scanned("generate_profile_card", Cardinality(CardSolvedIds(solSubs)))

GenerateAchievementCard ==
    /\ solHandler = "none"
    /\ Scanned("generate_achievement_card", Cardinality(CardSolvedIds(solSubs)))

GenerateComparisonCard ==
    /\ solHandler = "none"
    /\ Scanned("generate_comparison_card", Cardinality(CardSolvedIds(solSubs)))

SolvedNext ==
    \/ GetSolvedProblems
    \/ GetSolvedRatingHistogram
    \/ PlotSolvedRatingDistribution
    \/ RecommendProblems
    \/ GenerateProfileCard
    \/ GenerateAchievementCard
    \/ GenerateComparisonCard

(***************************************************************************)
(* recommend_problems (tools/codeforces_tools.py)                          *)
(***************************************************************************)
\* Python's None, for an argument that was not supplied.
None == -4

\* user.info answered with an empty list.
NoUser == -5

\* The problem set of the platform, in problemset.problems order.
ProblemsetProblems ==
    <<Problem(1, "A", 1200), Problem(1, "B", 1300), Problem(2, "A", 1400),
      Problem(2, "B", 1500), Problem(3, "A", NoRating)>>

ProblemsetIndices == 1..Len(ProblemsetProblems)

RatedIndices == {i \in ProblemsetIndices : ProblemsetProblems[i].rating # NoRating}

\* The arguments a caller can pass.
MinRatings == {None, 1300}
MaxRatings == {None, 1400}
Counts == (0..MaxCount) \cup {5}

\* What the user.info call can end with: a failure, an empty list, a user
\* without a 'rating' key, or a user with a rating.
UserInfoOutcomes == {CallFailed, NoUser, NoRating, 1300, 1400}

\* The user.status results: per problem no submission, an accepted one or a
\* rejected one, listed in problem-set order.
Attempts == [ProblemsetIndices -> {"none", "OK", "WRONG_ANSWER"}]

RECURSIVE AttemptList(_, _)
AttemptList(attempt, i) ==
    IF i > Len(ProblemsetProblems) THEN <<>>
    ELSE IF attempt[i] = "none" THEN AttemptList(attempt, i + 1)
    ELSE <<[problem |-> ProblemsetProblems[i], verdict |-> attempt[i],
            creationTimeSeconds |-> 100]>> \o AttemptList(attempt, i + 1)

\* The orders random.shuffle can leave the candidates in: a rank per
\* rated problem.
Shuffles == Permutations(RatedIndices)

\* user_info_list[0].get('rating', 1200)
CurrentRating(info) == IF info = NoRating THEN 1200 ELSE info

\* A faulty variant of RatingWindow: the band is one point too wide.
RatingWindowWide(min_rating, max_rating, info) ==
    IF min_rating = None /\ max_rating = None
    THEN [min |-> CurrentRating(info), max |-> CurrentRating(info) + 200]
    ELSE [min |-> min_rating, max |-> max_rating]

\* Lines 145-148: the window is derived from the user's rating only when
\* both bounds are None.
RatingWindow(min_rating, max_rating, info) ==
    IF min_rating = None /\ max_rating = None
    THEN [min |-> CurrentRating(info), max |-> CurrentRating(info) + 199]
    ELSE [min |-> min_rating, max |-> max_rating]

\* A faulty variant of InWindow: the upper bound is exclusive.
InWindowExclusive(rating, window) ==
    IF window.min = None THEN "TypeError"
    ELSE IF ~(window.min <= rating) THEN "no"
    ELSE IF window.max = None THEN "TypeError"
    ELSE IF rating < window.max THEN "yes" ELSE "no"

\* min_rating <= p['rating'] <= max_rating: a chained comparison, evaluated
\* left to right; comparing None with an int raises TypeError.
InWindow(rating, window) ==
    IF window.min = None THEN "TypeError"
    ELSE IF ~(window.min <= rating) THEN "no"
    ELSE IF window.max = None THEN "TypeError"
    ELSE IF rating <= window.max THEN "yes" ELSE "no"

\* A faulty variant of Qualifies: solved problems are not excluded.
QualifiesIgnoringSolved(p, solved_ids, window) ==
    IF p.rating = NoRating THEN "no"
    ELSE InWindow(p.rating, window)

\* The condition of the candidates comprehension for one problem.
Qualifies(p, solved_ids, window) ==
    IF JoinedId(p) \in solved_ids THEN "no"
    ELSE IF p.rating = NoRating THEN "no"
    ELSE InWindow(p.rating, window)

\* candidates: the indices of the qualifying problems, in problem-set order.
Candidates(solved_ids, window) ==
    SelectSeq([i \in ProblemsetIndices |-> i],
              LAMBDA i : Qualifies(ProblemsetProblems[i], solved_ids, window) = "yes")

\* The comprehension raises as soon as one problem reaches a comparison
\* with None.
FilterRaises(solved_ids, window) ==
    \E i \in ProblemsetIndices :
        Qualifies(ProblemsetProblems[i], solved_ids, window) = "TypeError"

\* random.shuffle(candidates): the candidates in the order `rank` puts them.
RECURSIVE InsertByRank(_, _, _)
InsertByRank(sorted, i, rank) ==
    IF sorted = <<>> THEN <<i>>
    ELSE IF rank[Head(sorted)] <= rank[i]
         THEN <<Head(sorted)>> \o InsertByRank(Tail(sorted), i, rank)
         ELSE <<i>> \o sorted

RECURSIVE Shuffled(_, _)
Shuffled(candidates, rank) ==
    IF candidates = <<>> THEN <<>>
    ELSE InsertByRank(Shuffled(Tail(candidates), rank), Head(candidates), rank)

\* candidates[:count] for count >= 0
Truncate(seq, count) == SubSeq(seq, 1, IF count < Len(seq) THEN count ELSE Len(seq))

NoRecResult == [kind |-> "none", code |-> 0, detail |-> "none", min |-> None,
                max |-> None, problems |-> <<>>]

\* The texts recommend_problems returns, and the error it raises.
RecText(k, window, problems) ==
    [kind |-> k, code |-> 0, detail |-> "none", min |-> window.min,
     max |-> window.max, problems |-> problems]

\* McpError(code=500, "Error generating recommendations: {str(e)}")
RecError(c, e) == [kind |-> "error", code |-> c, detail |-> e, min |-> None,
                   max |-> None, problems |-> <<>>]

RecommendInit ==
    /\ recPc = "idle"
    /\ recArgs = [min_rating |-> None, max_rating |-> None, count |-> 5]
    /\ recInfo = NotCalled
    /\ recWindow = [min |-> None, max |-> None]
    /\ recSubs = <<>>
    /\ recCandidates = <<>>
    /\ recResult = NoRecResult

RecommendDormant == RecommendInit

\* The call is dispatched; the handler awaits user.info.
RecommendStart(min_rating, max_rating, count) ==
    /\ recPc = "idle"
    /\ recArgs' = [min_rating |-> min_rating, max_rating |-> max_rating,
                   count |-> count]
    /\ recPc' = "user_info"
    /\ UNCHANGED <<recInfo, recWindow, recSubs, recCandidates, recResult,
                   notRecommend>>

\* user.info ended (lines 141-148).
RecommendUserInfoEnds(info) ==
    /\ recPc = "user_info"
    /\ recInfo' = info
    /\ IF info = CallFailed
       THEN /\ recResult' = RecError(500, "upstream failure")
            /\ recPc' = "done"
            /\ UNCHANGED recWindow
       ELSE IF info = NoUser
       THEN /\ recResult' = RecText("not_found", recWindow, <<>>)
            /\ recPc' = "done"
            /\ UNCHANGED recWindow
       ELSE /\ recWindow' = RatingWindow(recArgs.min_rating, recArgs.max_rating, info)
            /\ recPc' = "gather"
            /\ UNCHANGED recResult
    /\ UNCHANGED <<recArgs, recSubs, recCandidates, notRecommend>>

\* One of the two gathered calls failed (lines 150-153, 167-168).
RecommendGatherFails ==
    /\ recPc = "gather"
    /\ recResult' = RecError(500, "upstream failure")
    /\ recPc' = "done"
    /\ UNCHANGED <<recArgs, recInfo, recWindow, recSubs, recCandidates,
                   notRecommend>>

\* The gathered calls returned: filter, shuffle, truncate (lines 155-166).
RecommendGatherReturns(attempt, shuffle) ==
    /\ recPc = "gather"
    /\ LET submissions == AttemptList(attempt, 1)
           solved_ids == RecommendSolvedIds(submissions)
           candidates == Candidates(solved_ids, recWindow)
           shuffled == Shuffled(candidates, shuffle)
       IN /\ recSubs' = submissions
          /\ IF FilterRaises(solved_ids, recWindow)
             THEN /\ recCandidates' = <<>>
                  /\ recResult' = RecError(500, "TypeError")
             ELSE /\ recCandidates' = candidates
                  /\ recResult' =
                        IF candidates = <<>>
                        THEN RecText("none_found", recWindow, <<>>)
                        ELSE RecText("recommended", recWindow,
                                     Truncate(shuffled, recArgs.count))
    /\ recPc' = "done"
    /\ UNCHANGED <<recArgs, recInfo, recWindow, notRecommend>>

RecommendNext ==
    \/ \E min_rating \in MinRatings, max_rating \in MaxRatings, count \in Counts :
          RecommendStart(min_rating, max_rating, count)
    \/ \E info \in UserInfoOutcomes : RecommendUserInfoEnds(info)
    \/ RecommendGatherFails
    \/ \E attempt \in Attempts, shuffle \in Shuffles :
          RecommendGatherReturns(attempt, shuffle)

(***************************************************************************)
(* get_solved_rating_histogram behind the tool manager                     *)
(* (tools/codeforces_tools.py)                                             *)
(***************************************************************************)
\* The bin_size arguments a caller can send.
BinSizes == {50, 100, 200, 400, 500}

\* A faulty variant of ValidBinSize: the upper bound is not enforced.
ValidBinSizeNoUpper(bin_size) == bin_size >= 100

\* Field(ge=100, le=400): the constraint the tool manager validates the
\* argument against before it calls the handler.
ValidBinSize(bin_size) == bin_size >= 100 /\ bin_size <= 400

\* The user.status results the histogram is built from.
HistSubmissions == {sub \in Submissions : sub.creationTimeSeconds = 100}

HistSubmissionLists == UNION {[1..n -> HistSubmissions] : n \in 0..MaxSubs}

\* A faulty variant of RatingBin: bins of 100 whatever bin_size is.
RatingBinOfHundred(rating, bin_size) == (rating \div 100) * 100

\* (problem['rating'] // bin_size) * bin_size
RatingBin(rating, bin_size) == (rating \div bin_size) * bin_size

\* problem_ratings: the number of kept submissions per bin.
ProblemRatings(subs, bin_size) ==
    LET kept == RatedSolved(subs)
        bins == {RatingBin(kept[k].problem.rating, bin_size) : k \in 1..Len(kept)}
    IN [b \in bins |->
          Cardinality({k \in 1..Len(kept) :
                          RatingBin(kept[k].problem.rating, bin_size) = b})]

\* sorted(problem_ratings.keys())
RECURSIVE SortedBins(_)
SortedBins(bins) ==
    IF bins = {} THEN <<>>
    ELSE LET least == CHOOSE b \in bins : \A c \in bins : b <= c
         IN <<least>> \o SortedBins(bins \ {least})

\* The lines of the histogram: one per bin, with its count.
HistogramRows(subs, bin_size) ==
    LET problem_ratings == ProblemRatings(subs, bin_size)
        sorted_bins == SortedBins(DOMAIN problem_ratings)
    IN [k \in 1..Len(sorted_bins) |->
          [rating |-> sorted_bins[k], count |-> problem_ratings[sorted_bins[k]]]]

NoHistResult == [kind |-> "none", code |-> 0, rows |-> <<>>]
HistText(k, rows) == [kind |-> k, code |-> 0, rows |-> rows]
HistError(k, c) == [kind |-> k, code |-> c, rows |-> <<>>]

HistogramInit ==
    /\ histPc = "idle"
    /\ histBinSize = 100
    /\ histEntered = FALSE
    /\ histRequests = 0
    /\ histSubs = <<>>
    /\ histResult = NoHistResult

HistogramDormant == HistogramInit

\* The tool manager validates the arguments; the handler is called with
\* them only when they pass, and then awaits user.status.
HistogramDispatch(bin_size) ==
    /\ histPc = "idle"
    /\ histBinSize' = bin_size
    /\ IF ValidBinSize(bin_size)
       THEN /\ histEntered' = TRUE
            /\ histRequests' = histRequests + 1
            /\ histPc' = "user_status"
            /\ UNCHANGED histResult
       ELSE /\ histResult' = HistError("validation_error", 0)
            /\ histPc' = "done"
            /\ UNCHANGED <<histEntered, histRequests>>
    /\ UNCHANGED <<histSubs, notHistogram>>

\* user.status failed (lines 290-291).
HistogramStatusFails ==
    /\ histPc = "user_status"
    /\ histResult' = HistError("error", 500)
    /\ histPc' = "done"
    /\ UNCHANGED <<histBinSize, histEntered, histRequests, histSubs, notHistogram>>

\* user.status returned: bin the solved problems (lines 264-289).
HistogramStatusReturns(subs) ==
    /\ histPc = "user_status"
    /\ histSubs' = subs
    /\ LET rows == HistogramRows(subs, histBinSize)
       IN histResult' = IF rows = <<>> THEN HistText("no_rated_problems", <<>>)
                        ELSE HistText("histogram", rows)
    /\ histPc' = "done"
    /\ UNCHANGED <<histBinSize, histEntered, histRequests, notHistogram>>

HistogramNext ==
    \/ \E bin_size \in BinSizes : HistogramDispatch(bin_size)
    \/ HistogramStatusFails
    \/ \E subs \in HistSubmissionLists : HistogramStatusReturns(subs)

(***************************************************************************)
(* plot_performance_graph (tools/graphing_tools.py)                        *)
(***************************************************************************)
\* The user.rating results: rating changes in any order.
RatingChangeRecords ==
    [ratingUpdateTimeSeconds : {100, 200, 300}, oldRating : {1500, 1600},
     newRating : {1500, 1600}]

RatingChangeLists == UNION {[1..n -> RatingChangeRecords] : n \in 0..MaxChanges}

\* rating_changes.sort(key=ratingUpdateTimeSeconds): ascending and stable
RECURSIVE InsertByUpdateTime(_, _)
InsertByUpdateTime(sorted, rc) ==
    IF sorted = <<>> THEN <<rc>>
    ELSE IF Head(sorted).ratingUpdateTimeSeconds <= rc.ratingUpdateTimeSeconds
         THEN <<Head(sorted)>> \o InsertByUpdateTime(Tail(sorted), rc)
         ELSE <<rc>> \o sorted

RECURSIVE SortByUpdateTime(_)
SortByUpdateTime(changes) ==
    IF changes = <<>> THEN <<>>
    ELSE InsertByUpdateTime(SortByUpdateTime(SubSeq(changes, 1, Len(changes) - 1)),
                            changes[Len(changes)])

\* A faulty variant of Performance: the change is added once, not four times.
PerformanceIsNewRating(rc) == rc.oldRating + (rc.newRating - rc.oldRating)

\* delta = newRating - oldRating; performance = oldRating + (delta * 4)
Performance(rc) == rc.oldRating + ((rc.newRating - rc.oldRating) * 4)

\* times and performance_ratings, point by point, as ax.plot receives them.
PerformanceSeries(changes) ==
    LET rating_changes == SortByUpdateTime(changes)
    IN [k \in 1..Len(rating_changes) |->
          [time |-> rating_changes[k].ratingUpdateTimeSeconds,
           performance |-> Performance(rating_changes[k])]]

PerformanceInit ==
    /\ perfPc = "idle"
    /\ perfChanges = <<>>
    /\ perfSeries = <<>>
    /\ perfResult = "none"

PerformanceDormant == PerformanceInit

\* The handler is entered and awaits user.rating.
PerformanceStart ==
    /\ perfPc = "idle"
    /\ perfPc' = "user_rating"
    /\ UNCHANGED <<perfChanges, perfSeries, perfResult, notPerformance>>

\* user.rating failed (lines 166-168).
PerformanceRatingFails ==
    /\ perfPc = "user_rating"
    /\ perfResult' = "error 500"
    /\ perfPc' = "done"
    /\ UNCHANGED <<perfChanges, perfSeries, notPerformance>>

\* user.rating returned (lines 110-164): no changes raise the 404 that the
\* except clause re-raises as 500; otherwise the series is plotted.
PerformanceRatingReturns(changes) ==
    /\ perfPc = "user_rating"
    /\ perfChanges' = changes
    /\ IF changes = <<>>
       THEN /\ perfResult' = "error 500"
            /\ UNCHANGED perfSeries
       ELSE /\ perfSeries' = PerformanceSeries(changes)
            /\ perfResult' = "image"
    /\ perfPc' = "done"
    /\ UNCHANGED notPerformance

PerformanceNext ==
    \/ PerformanceStart
    \/ PerformanceRatingFails
    \/ \E changes \in RatingChangeLists : PerformanceRatingReturns(changes)

(***************************************************************************)
(* Optional parameters and their defaults                                  *)
(* (tools/codeforces_tools.py, tools/contest_tools.py,                     *)
(* tools/graphing_tools.py, config.py)                                     *)
(***************************************************************************)
\* A string argument, and a list argument, that the call does not carry.
Absent == "<omitted>"
AbsentList == <<Absent>>

\* The two calls that are compared: one omits the parameter, the other
\* supplies its default.
DefaultCalls == {"omitted", "explicit"}

\* Tools and their optional parameters.
DefaultCases ==
    {<<"recommend_problems", "handle">>, <<"recommend_problems", "count">>,
     <<"get_solved_rating_histogram", "handle">>,
     <<"get_solved_rating_histogram", "bin_size">>,
     <<"get_upcoming_contests", "platforms">>, <<"get_upcoming_contests", "limit">>,
     <<"plot_rating_graph", "handles">>, <<"plot_rating_graph", "handle">>}

\* config.DEFAULT_HANDLE: empty when the environment does not set it.
DefaultHandles == {"", "tourist"}

\* What a caller can send for the other parameters; `number` is the count,
\* limit or bin_size of the tool.
CallArguments ==
    [handle : {Absent, "B"}, handles : {AbsentList, <<"B", "C">>},
     platforms : {AbsentList, <<"atcoder">>, <<"spoj">>}, number : {None, 200}]

\* How many items the upstream has for the request (problems, contests).
UpstreamSizes == {0, 3, 12}

\* A faulty variant of SignatureDefault: recommend_problems counts to 10.
SignatureDefaultOfTen(tool) ==
    IF tool = "get_solved_rating_histogram" THEN 100 ELSE 10

\* The literal defaults of the signatures: count = 5, limit = 10,
\* bin_size = 100.
SignatureDefault(tool) ==
    IF tool = "recommend_problems" THEN 5
    ELSE IF tool = "get_upcoming_contests" THEN 10
    ELSE IF tool = "get_solved_rating_histogram" THEN 100
    ELSE None

\* The defaults the tool definitions advertise to the model: "Defaults to
\* 5", "Default: 10", "Defaults to 100".
AdvertisedDefault(tool) ==
    IF tool = "recommend_problems" THEN 5
    ELSE IF tool = "get_upcoming_contests" THEN 10
    ELSE IF tool = "get_solved_rating_histogram" THEN 100
    ELSE None

\* The default of a parameter, as a caller would write it out. The handles
\* of plot_rating_graph fall back to its handle argument first (lines
\* 49-50), then to the configured handle (lines 53-54).
WithDefault(args, case, default_handle) ==
    IF case[2] = "handle" THEN [args EXCEPT !.handle = default_handle]
    ELSE IF case[2] = "handles"
         THEN [args EXCEPT !.handles = IF args.handle = Absent
                                       THEN <<default_handle>> ELSE <<args.handle>>]
    ELSE IF case[2] = "platforms"
         THEN [args EXCEPT !.platforms = <<"codeforces", "leetcode", "codechef">>]
    ELSE [args EXCEPT !.number = AdvertisedDefault(case[1])]

Without(args, case) ==
    IF case[2] = "handle" THEN [args EXCEPT !.handle = Absent]
    ELSE IF case[2] = "handles" THEN [args EXCEPT !.handles = AbsentList]
    ELSE IF case[2] = "platforms" THEN [args EXCEPT !.platforms = AbsentList]
    ELSE [args EXCEPT !.number = None]

\* The call as the function receives it: an absent number takes the
\* literal default of the signature, an absent handle or list stays None.
Bound(tool, args) ==
    [args EXCEPT !.number = IF args.number = None THEN SignatureDefault(tool)
                            ELSE args.number]

\* A faulty variant of TargetHandle: only a missing handle falls back.
TargetHandleNoneOnly(handle, default_handle) ==
    IF handle = Absent THEN default_handle ELSE handle

\* handle or config.DEFAULT_HANDLE
TargetHandle(handle, default_handle) ==
    IF handle \in {Absent, ""} THEN default_handle ELSE handle

\* plot_rating_graph, lines 49-56 (<<>> stands for the 400 error).
TargetHandles(args, default_handle) ==
    IF args.handle \notin {Absent, ""} /\ args.handles \in {AbsentList, <<>>}
    THEN <<args.handle>>
    ELSE IF args.handles \notin {AbsentList, <<>>} THEN args.handles
    ELSE IF default_handle # "" THEN <<default_handle>>
    ELSE <<>>

\* platforms or ["codeforces", "leetcode", "codechef"]
TargetPlatforms(platforms) ==
    IF platforms \in {AbsentList, <<>>}
    THEN <<"codeforces", "leetcode", "codechef">> ELSE platforms

\* The platforms CListAPI.PLATFORM_MAPPING knows.
MappedPlatforms(platforms) ==
    SelectSeq(platforms, LAMBDA p : p \in {"codeforces", "leetcode", "codechef",
                                           "atcoder", "topcoder", "codingninjas"})

\* The subjects the handler works on: its handles, or its platforms.
Subjects(tool, received, default_handle) ==
    IF tool = "get_upcoming_contests" THEN TargetPlatforms(received.platforms)
    ELSE IF tool = "plot_rating_graph" THEN TargetHandles(received, default_handle)
    ELSE IF TargetHandle(received.handle, default_handle) = "" THEN <<>>
    ELSE <<TargetHandle(received.handle, default_handle)>>

\* The upstream requests the handler issues, in order.
UpstreamRequests(tool, received, default_handle) ==
    LET subjects == Subjects(tool, received, default_handle)
    IN IF tool = "get_upcoming_contests"
       THEN IF MappedPlatforms(subjects) = <<>> THEN <<>>
            ELSE <<[endpoint |-> "clist contest", params |-> MappedPlatforms(subjects)]>>
       ELSE IF subjects = <<>> THEN <<>>
       ELSE IF tool = "recommend_problems"
       THEN <<[endpoint |-> "user.info", params |-> subjects],
              [endpoint |-> "user.status", params |-> subjects],
              [endpoint |-> "problemset.problems", params |-> <<>>]>>
       ELSE IF tool = "get_solved_rating_histogram"
       THEN <<[endpoint |-> "user.status", params |-> subjects]>>
       ELSE [k \in 1..Len(subjects) |->
               [endpoint |-> "user.rating", params |-> <<subjects[k]>>]]

\* What the handler returns when the upstream holds `size` items: the
\* subjects named in the reply and the items shown (or the bin size used).
HandlerResult(tool, received, default_handle, size) ==
    LET subjects == Subjects(tool, received, default_handle)
        shown == IF received.number < size THEN received.number ELSE size
    IN IF tool = "get_upcoming_contests"
       THEN IF MappedPlatforms(subjects) = <<>> \/ size = 0
            THEN [kind |-> "no contests", subjects |-> subjects, number |-> 0]
            ELSE [kind |-> "contests", subjects |-> subjects, number |-> shown]
       ELSE IF subjects = <<>>
       THEN [kind |-> "error 400", subjects |-> <<>>, number |-> 0]
       ELSE IF tool = "recommend_problems"
       THEN [kind |-> "problems", subjects |-> subjects, number |-> shown]
       ELSE IF tool = "get_solved_rating_histogram"
       THEN [kind |-> "histogram", subjects |-> subjects, number |-> received.number]
       ELSE [kind |-> "rating graph", subjects |-> subjects, number |-> 0]

NoDefaultResult == [kind |-> "none", subjects |-> <<>>, number |-> 0]

DefaultsInit ==
    /\ dfCase = <<"none", "none">>
    /\ dfConfig = ""
    /\ dfArgs = [c \in DefaultCalls |->
                   [handle |-> Absent, handles |-> AbsentList,
                    platforms |-> AbsentList, number |-> None]]
    /\ dfPc = [c \in DefaultCalls |-> "idle"]
    /\ dfRequests = [c \in DefaultCalls |-> <<>>]
    /\ dfUpstream = NotCalled
    /\ dfResult = [c \in DefaultCalls |-> NoDefaultResult]

DefaultsDormant == DefaultsInit

\* Two calls of one tool are prepared: they agree on every argument but
\* one, which the first omits and the second sets to its default. A handle
\* has a default only when DEFAULT_HANDLE is configured.
DefaultsPrepare(case, default_handle, args) ==
    /\ dfCase = <<"none", "none">>
    /\ case[2] \in {"handle", "handles"} => default_handle # ""
    /\ dfCase' = case
    /\ dfConfig' = default_handle
    /\ dfArgs' = [c \in DefaultCalls |->
                    IF c = "omitted" THEN Without(args, case)
                    ELSE WithDefault(args, case, default_handle)]
    /\ dfPc' = [c \in DefaultCalls |-> "ready"]
    /\ UNCHANGED <<dfRequests, dfUpstream, dfResult, notDefaults>>

\* The tool manager binds the arguments and calls the handler, which
\* resolves its subjects and issues its upstream requests.
DefaultsDispatch(c) ==
    /\ dfPc[c] = "ready"
    /\ dfRequests' = [dfRequests EXCEPT
                        ![c] = UpstreamRequests(dfCase[1], Bound(dfCase[1], dfArgs[c]),
                                                dfConfig)]
    /\ dfPc' = [dfPc EXCEPT ![c] = "awaiting"]
    /\ UNCHANGED <<dfCase, dfConfig, dfArgs, dfUpstream, dfResult, notDefaults>>

\* The upstream holds `size` items for both calls.
DefaultsUpstreamAnswers(size) ==
    /\ dfUpstream = NotCalled
    /\ \E c \in DefaultCalls : dfPc[c] = "awaiting"
    /\ dfUpstream' = size
    /\ UNCHANGED <<dfCase, dfConfig, dfArgs, dfPc, dfRequests, dfResult, notDefaults>>

\* The handler returns.
DefaultsReturn(c) ==
    /\ dfPc[c] = "awaiting"
    /\ dfUpstream # NotCalled
    /\ dfResult' = [dfResult EXCEPT
                      ![c] = HandlerResult(dfCase[1], Bound(dfCase[1], dfArgs[c]),
                                           dfConfig, dfUpstream)]
    /\ dfPc' = [dfPc EXCEPT ![c] = "done"]
    /\ UNCHANGED <<dfCase, dfConfig, dfArgs, dfRequests, dfUpstream, notDefaults>>

DefaultsNext ==
    \/ \E case \in DefaultCases, default_handle \in DefaultHandles,
          args \in CallArguments : DefaultsPrepare(case, default_handle, args)
    \/ \E c \in DefaultCalls : DefaultsDispatch(c)
    \/ \E size \in UpstreamSizes : DefaultsUpstreamAnswers(size)
    \/ \E c \in DefaultCalls : DefaultsReturn(c)

(***************************************************************************)
(* What the image-bearing tools return                                     *)
(* (tools/graphing_tools.py, tools/codeforces_tools.py)                    *)
(***************************************************************************)
ImageTools ==
    {"plot_rating_graph", "plot_performance_graph",
     "plot_solved_rating_distribution", "plot_verdict_distribution",
     "plot_tag_distribution", "plot_language_distribution",
     "generate_profile_card", "generate_achievement_card",
     "generate_comparison_card"}

\* The tools whose body is a single return of a string literal.
PlaceholderTools == {"plot_tag_distribution", "plot_language_distribution"}

\* The handle argument: one of the handles, or none (the configured one).
ImageSubjects == Handles \cup {"tourist"}

\* What the upstream holds for the subject.
ImageUpstream == {"data", "empty", "fail"}

NoReturn == [returned |-> "nothing", parts |-> <<>>, text |-> "", code |-> 0]

\* return "... plot logic goes here."
ReturnedString(tool) ==
    [returned |-> "str", parts |-> <<>>,
     text |-> IF tool = "plot_tag_distribution"
              THEN "Tag distribution plot logic goes here."
              ELSE "Language distribution plot logic goes here.",
     code |-> 0]

\* return _create_image_response(text, image_base64)
ReturnedImage(tool, subject) ==
    [returned |-> "list",
     parts |-> <<TextContent(tool \o " for " \o subject),
                 ImageContent("PNG of " \o tool \o " for " \o subject)>>,
     text |-> "", code |-> 0]

\* raise McpError(code=500, f"... {str(e)}") from the except clause; e is
\* the 404 raised for missing data or the failure of the upstream call.
RaisedError(outcome) ==
    [returned |-> "raise", parts |-> <<>>,
     text |-> IF outcome = "empty" THEN "McpError 500: not found"
              ELSE "McpError 500: upstream failure",
     code |-> 500]

ImageInit ==
    /\ imgPc = "idle"
    /\ imgTool = "none"
    /\ imgSubject = "none"
    /\ imgResult = NoReturn
    /\ imgUpstream = "unasked"

ImageDormant == ImageInit

\* The handler is called: a placeholder tool returns at once, the others
\* await the upstream data of their subject.
ImageCall(tool, subject) ==
    /\ imgPc = "idle"
    /\ imgTool' = tool
    /\ imgSubject' = subject
    /\ IF tool \in PlaceholderTools
       THEN /\ imgResult' = ReturnedString(tool)
            /\ imgPc' = "done"
       ELSE /\ imgPc' = "awaiting"
            /\ UNCHANGED imgResult
    /\ UNCHANGED <<imgUpstream, notImage>>

\* The upstream answered: missing data and failures end in the except
\* clause, data is rendered and wrapped.
ImageUpstreamEnds(outcome) ==
    /\ imgPc = "awaiting"
    /\ imgResult' = IF outcome = "data" THEN ReturnedImage(imgTool, imgSubject)
                    ELSE RaisedError(outcome)
    /\ imgUpstream' = outcome
    /\ imgPc' = "done"
    /\ UNCHANGED <<imgTool, imgSubject, notImage>>

ImageNext ==
    \/ \E tool \in ImageTools, subject \in ImageSubjects : ImageCall(tool, subject)
    \/ \E outcome \in ImageUpstream : ImageUpstreamEnds(outcome)

(***************************************************************************)
(* The tool registry: registration at import time, resolution at dispatch  *)
(* (server.py, tools/*.py, gemini_bridge.py)                               *)
(***************************************************************************)
\* One @mcp.tool decorator: the name it registers and the module whose
\* function becomes the handler.
Registration(module, name) == [name |-> name, module |-> module]

\* The decorators of one module, in the order they run.
CodeforcesToolsModule ==
    [k \in 1..11 |->
       Registration("tools.codeforces_tools",
                    <<"get_codeforces_user_stats", "recommend_problems",
                      "get_solved_problems", "get_rating_changes",
                      "get_solved_rating_histogram", "compare_codeforces_users",
                      "show_bot_capabilities", "generate_profile_card",
                      "generate_achievement_card", "generate_comparison_card",
                      "about">>[k])]

ContestToolsModule == <<Registration("tools.contest_tools", "get_upcoming_contests")>>

GraphingToolsModule ==
    [k \in 1..6 |->
       Registration("tools.graphing_tools",
                    <<"plot_rating_graph", "plot_performance_graph",
                      "plot_solved_rating_distribution", "plot_verdict_distribution",
                      "plot_tag_distribution", "plot_language_distribution">>[k])]

LeetcodeToolsModule ==
    <<Registration("tools.leetcode_tools", "get_leetcode_daily_problem")>>

ServerModule ==
    <<Registration("server", "validate"), Registration("server", "health_check")>>

\* tools/about.py, which no module imports.
AboutModule == <<Registration("tools.about", "about")>>

\* A faulty variant of Registrations: tools/about.py is imported as well.
RegistrationsWithAboutModule ==
    CodeforcesToolsModule \o ContestToolsModule \o GraphingToolsModule
        \o LeetcodeToolsModule \o AboutModule \o ServerModule

\* The registrations that importing server.py performs, in order: its four
\* tool modules, then its own two decorators.
Registrations ==
    CodeforcesToolsModule \o ContestToolsModule \o GraphingToolsModule
        \o LeetcodeToolsModule \o ServerModule

\* The names a dispatch can carry: every registered name, and the two names
\* that are advertised to the model without a handler.
DispatchNames ==
    {Registrations[k].name : k \in 1..Len(Registrations)}
        \cup {"get_upsolve_targets", "generate_contest_calendar"}

\* The names of mcp_tool_definitions, which ConversationManager hands to
\* the model as its tools.
AdvertisedTools ==
    {"validate", "health_check", "get_leetcode_daily_problem",
     "get_upcoming_contests", "generate_contest_calendar",
     "get_codeforces_user_stats", "recommend_problems", "get_solved_problems",
     "get_rating_changes", "get_solved_rating_histogram", "get_upsolve_targets",
     "plot_rating_graph", "plot_performance_graph",
     "plot_solved_rating_distribution", "plot_verdict_distribution",
     "plot_tag_distribution", "plot_language_distribution"}

\* How the handler of a dispatched tool ends.
DispatchOutcomes == {"returned", "raised"}

\* The tool manager's table: under each name, the handlers registered for
\* it, oldest first. A later registration of a name replaces the earlier.
EmptyRegistry == [name \in DispatchNames |-> <<>>]

AddTool(table, reg) ==
    [table EXCEPT ![reg.name] = Append(@, reg.module)]

Known(table, name) == table[name] # <<>>

Resolve(table, name) == table[name][Len(table[name])]

\* _tool_manager.call_tool(tool_name, arguments): the table is read, the
\* handler runs; the record tells what was resolved and how it ended.
CallTool(table, name, outcome) ==
    IF Known(table, name)
    THEN [name |-> name, handler |-> Resolve(table, name), outcome |-> outcome]
    ELSE [name |-> name, handler |-> "none", outcome |-> "unknown tool"]

RegistryInit ==
    /\ regNext = 1
    /\ registry = EmptyRegistry
    /\ regLog = <<>>

RegistryDormant == RegistryInit

\* The next decorator runs while server.py is being imported.
RegisterNext ==
    /\ regNext <= Len(Registrations)
    /\ registry' = AddTool(registry, Registrations[regNext])
    /\ regNext' = regNext + 1
    /\ UNCHANGED <<regLog, notRegistry>>

\* The bridge dispatches a call after the imports are over.
RegistryDispatch(name, outcome) ==
    /\ regNext > Len(Registrations)
    /\ Len(regLog) < MaxDispatches
    /\ regLog' = Append(regLog, CallTool(registry, name, outcome))
    /\ UNCHANGED <<regNext, registry, notRegistry>>

RegistryNext ==
    \/ RegisterNext
    \/ \E name \in DispatchNames, outcome \in DispatchOutcomes :
          RegistryDispatch(name, outcome)

(***************************************************************************)
(* Start-up, keep-alive and shutdown (main.py, server.py, config.py)       *)
(***************************************************************************)
\* config.RENDER_HEALTH_URL: empty when the environment does not set it.
HealthUrls == {"", "https://app.onrender.com/health"}

\* How the conversation loop is left: the user types exit, or
\* ConversationManager() raises before the loop is entered.
ConversationExits == {"exit", "error"}

\* How a ping ends: status 200, another status, or an exception (timeout,
\* connection error).
PingOutcomes == {"200", "non200", "failed"}

\* A counter that stops counting at MaxPings.
Counted(n) == IF n < MaxPings THEN n + 1 ELSE n

\* A faulty variant of AfterPing: a failed ping ends the task.
AfterPingStopsOnFailure(outcome) ==
    IF outcome = "failed" THEN "returned" ELSE "sleeping"

\* Where keep_alive goes after a ping: both branches of the status test
\* and the except clause fall through to the next iteration of the loop.
AfterPing(outcome) == "sleeping"

\* task.cancel() as seen by a task: a task that waits at an await gets
\* CancelledError there (the except clause of keep_alive catches Exception
\* only), a task that has not run yet never runs, a finished task is left
\* as it is.
Cancelled(pc) ==
    IF pc \in {"created", "sleeping", "pinging", "serving"} THEN "cancelled" ELSE pc

LifecycleInit ==
    /\ mainPc = "idle"
    /\ lcUrl = ""
    /\ lcCause = "none"
    /\ srvPc = "unborn"
    /\ kaPc = "unborn"
    /\ kaLast = "none"
    /\ kaWaits = 0
    /\ kaPings = 0

LifecycleDormant == LifecycleInit

\* main: server_task = asyncio.create_task(start_server()); sleep(2)
MainStart(url) ==
    /\ mainPc = "idle"
    /\ lcUrl' = url
    /\ srvPc' = "created"
    /\ mainPc' = "sleep 2"
    /\ UNCHANGED <<lcCause, kaPc, kaLast, kaWaits, kaPings, notLifecycle>>

\* start_server: asyncio.create_task(keep_alive()); await mcp.run_async(...)
ServerStarts ==
    /\ srvPc = "created"
    /\ kaPc' = "created"
    /\ srvPc' = "serving"
    /\ UNCHANGED <<mainPc, lcUrl, lcCause, kaLast, kaWaits, kaPings, notLifecycle>>

\* mcp.run_async raises (the port is taken, say): the server task is done.
ServerFails ==
    /\ srvPc = "serving"
    /\ srvPc' = "failed"
    /\ UNCHANGED <<mainPc, lcUrl, lcCause, kaPc, kaLast, kaWaits, kaPings, notLifecycle>>

\* main: the two seconds are over (the server task, made ready before the
\* sleep, has run by then); run_conversation() starts.
MainWakes ==
    /\ mainPc = "sleep 2"
    /\ srvPc # "created"
    /\ mainPc' = "conversation"
    /\ UNCHANGED <<lcUrl, lcCause, srvPc, kaPc, kaLast, kaWaits, kaPings, notLifecycle>>

\* run_conversation returns or raises; main reaches its finally block.
ConversationEnds(how) ==
    /\ mainPc = "conversation"
    /\ lcCause' = how
    /\ mainPc' = "finally"
    /\ UNCHANGED <<lcUrl, srvPc, kaPc, kaLast, kaWaits, kaPings, notLifecycle>>

\* finally: server_task.cancel(), then await server_task
MainCancelsServer ==
    /\ mainPc = "finally"
    /\ srvPc' = IF srvPc = "serving" THEN "cancelling" ELSE srvPc
    /\ mainPc' = "await server"
    /\ UNCHANGED <<lcUrl, lcCause, kaPc, kaLast, kaWaits, kaPings, notLifecycle>>

\* The server task gets CancelledError inside run_async and ends.
ServerAcknowledges ==
    /\ srvPc = "cancelling"
    /\ srvPc' = "cancelled"
    /\ UNCHANGED <<mainPc, lcUrl, lcCause, kaPc, kaLast, kaWaits, kaPings, notLifecycle>>

\* await server_task ends: CancelledError is caught and main goes on to
\* sleep(0.1); the exception of a server task that had failed is not
\* caught and leaves main.
MainAwaitEnds ==
    /\ mainPc = "await server"
    /\ srvPc \in {"cancelled", "failed"}
    /\ mainPc' = IF srvPc = "cancelled" THEN "sleep 0.1" ELSE "raised"
    /\ UNCHANGED <<lcUrl, lcCause, srvPc, kaPc, kaLast, kaWaits, kaPings, notLifecycle>>

\* print("Application has shut down.")
MainReports ==
    /\ mainPc = "sleep 0.1"
    /\ mainPc' = "reported"
    /\ UNCHANGED <<lcUrl, lcCause, srvPc, kaPc, kaLast, kaWaits, kaPings, notLifecycle>>

\* main returns to asyncio.run.
MainReturns ==
    /\ mainPc = "reported"
    /\ mainPc' = "returned"
    /\ UNCHANGED <<lcUrl, lcCause, srvPc, kaPc, kaLast, kaWaits, kaPings, notLifecycle>>

\* asyncio.run(main()): once main is over, the tasks that remain are
\* cancelled and run to their end, and the process exits.
RunTeardown ==
    /\ mainPc \in {"returned", "raised"}
    /\ kaPc' = Cancelled(kaPc)
    /\ srvPc' = Cancelled(srvPc)
    /\ mainPc' = IF mainPc = "returned" THEN "exited" ELSE "crashed"
    /\ UNCHANGED <<lcUrl, lcCause, kaLast, kaWaits, kaPings, notLifecycle>>

\* keep_alive, lines 27-31: return when no URL is configured.
KeepAliveFirstStep ==
    /\ kaPc = "created"
    /\ kaPc' = IF lcUrl = "" THEN "returned" ELSE "sleeping"
    /\ UNCHANGED <<mainPc, lcUrl, lcCause, srvPc, kaLast, kaWaits, kaPings, notLifecycle>>

\* await asyncio.sleep(5 * 60) is over; session.get(...) is issued.
KeepAliveWakes ==
    /\ kaPc = "sleeping"
    /\ kaWaits' = Counted(kaWaits)
    /\ kaPc' = "pinging"
    /\ UNCHANGED <<mainPc, lcUrl, lcCause, srvPc, kaLast, kaPings, notLifecycle>>

\* The ping ends; the loop goes on.
KeepAlivePingEnds(outcome) ==
    /\ kaPc = "pinging"
    /\ kaLast' = outcome
    /\ kaPings' = Counted(kaPings)
    /\ kaPc' = AfterPing(outcome)
    /\ UNCHANGED <<mainPc, lcUrl, lcCause, srvPc, kaWaits, notLifecycle>>

LifecycleNext ==
    \/ \E url \in HealthUrls : MainStart(url)
    \/ ServerStarts
    \/ ServerFails
    \/ MainWakes
    \/ \E how \in ConversationExits : ConversationEnds(how)
    \/ MainCancelsServer
    \/ ServerAcknowledges
    \/ MainAwaitEnds
    \/ MainReports
    \/ MainReturns
    \/ RunTeardown
    \/ KeepAliveFirstStep
    \/ KeepAliveWakes
    \/ \E outcome \in PingOutcomes : KeepAlivePingEnds(outcome)

\* The keep-alive task is scheduled whenever it can take a step: the event
\* loop is not blocked for good.
KeepAliveFairness ==
    /\ WF_vars(KeepAliveWakes)
    /\ WF_vars(\E outcome \in PingOutcomes : KeepAlivePingEnds(outcome))

(***************************************************************************)
(* Whose data a handle-taking tool fetches                                 *)
(* (tools/codeforces_tools.py, tools/graphing_tools.py, config.py)         *)
(***************************************************************************)
HandleTools ==
    {"get_codeforces_user_stats", "recommend_problems", "get_solved_problems",
     "get_rating_changes", "get_solved_rating_histogram", "generate_profile_card",
     "generate_achievement_card", "plot_rating_graph", "plot_performance_graph",
     "plot_solved_rating_distribution", "plot_verdict_distribution"}

\* The tools with a `handles` parameter, and those with a `handle` one.
HandlesTools == {"get_codeforces_user_stats", "plot_rating_graph"}
HandleOnlyTools == HandleTools \ {"get_codeforces_user_stats"}

\* The tools whose check also rejects a handle of blanks.
StripTools == {"plot_solved_rating_distribution", "plot_verdict_distribution"}

\* What a caller can send as handle and handles.
HandleArguments ==
    [handle : {Absent, "", " ", "B"}, handles : {AbsentList, <<>>, <<"B", "C">>}]

\* target_handle / target_handles of the tool.
ResolvedHandles(tool, args, default_handle) ==
    IF tool = "get_codeforces_user_stats"
    THEN IF args.handles \in {AbsentList, <<>>} THEN <<default_handle>> ELSE args.handles
    ELSE IF tool = "plot_rating_graph" THEN TargetHandles(args, default_handle)
    ELSE <<TargetHandle(args.handle, default_handle)>>

\* The check that raises McpError(code=400) before the try block.
Rejected(tool, targets) ==
    IF tool = "plot_rating_graph" THEN targets = <<>>
    ELSE IF tool \in StripTools THEN targets[1] \in {"", " "}
    ELSE targets[1] = ""

\* The upstream methods the tool calls, in order.
Endpoints(tool) ==
    IF tool = "get_codeforces_user_stats" THEN <<"user.info">>
    ELSE IF tool = "recommend_problems"
         THEN <<"user.info", "user.status", "problemset.problems">>
    ELSE IF tool \in {"generate_profile_card", "generate_achievement_card"}
         THEN <<"user.info", "user.rating", "user.status">>
    ELSE IF tool \in {"get_rating_changes", "plot_performance_graph"}
         THEN <<"user.rating">>
    ELSE <<"user.status">>

\* The upstream calls of the tool, with the handles each one names:
\* plot_rating_graph asks user.rating once per handle, problemset.problems
\* names no handle.
HandleRequests(tool, targets) ==
    IF tool = "plot_rating_graph"
    THEN [k \in 1..Len(targets) |-> [endpoint |-> "user.rating", handles |-> <<targets[k]>>]]
    ELSE [k \in 1..Len(Endpoints(tool)) |->
            [endpoint |-> Endpoints(tool)[k],
             handles |-> IF Endpoints(tool)[k] = "problemset.problems"
                         THEN <<>> ELSE targets]]

IdentityInit ==
    /\ idPc = "idle"
    /\ idCall = [tool |-> "none", handle |-> Absent, handles |-> AbsentList,
                 default_handle |-> ""]
    /\ idRequests = <<>>
    /\ idResult = "none"

IdentityDormant == IdentityInit

\* The tool is called: it resolves its handles, then either raises the 400
\* or goes on to its upstream calls.
IdentityCall(tool, args, default_handle) ==
    /\ idPc = "idle"
    /\ tool \in HandlesTools \/ args.handles = AbsentList
    /\ tool \in HandleOnlyTools \/ args.handle = Absent
    /\ idCall' = [tool |-> tool, handle |-> args.handle, handles |-> args.handles,
                  default_handle |-> default_handle]
    /\ LET targets == ResolvedHandles(tool, args, default_handle)
       IN IF Rejected(tool, targets)
          THEN /\ idResult' = "error 400"
               /\ idPc' = "done"
               /\ UNCHANGED idRequests
          ELSE /\ idRequests' = HandleRequests(tool, targets)
               /\ idPc' = "awaiting"
               /\ UNCHANGED idResult
    /\ UNCHANGED notIdentity

\* The upstream calls end: with data the tool answers, a failure ends in
\* the except clause.
IdentityUpstreamEnds(outcome) ==
    /\ idPc = "awaiting"
    /\ idResult' = IF outcome = "data" THEN "answered" ELSE "error 500"
    /\ idPc' = "done"
    /\ UNCHANGED <<idCall, idRequests, notIdentity>>

IdentityNext ==
    \/ \E tool \in HandleTools, args \in HandleArguments,
          default_handle \in DefaultHandles : IdentityCall(tool, args, default_handle)
    \/ \E outcome \in {"data", "fail"} : IdentityUpstreamEnds(outcome)

(***************************************************************************)
(* get_solved_problems: the list of recently solved problems               *)
(* (tools/codeforces_tools.py)                                             *)
(***************************************************************************)
\* The count argument: small values, and the default of the signature.
RecentCounts == 0..MaxCount \cup {10}

\* What the handler derives from the submissions: the text for no accepted
\* submission, or solved_submissions[:count] under the header.
RecentReply(subs, count) ==
    IF SolvedSubmissions(subs) = <<>>
    THEN [kind |-> "none found", entries |-> <<>>]
    ELSE [kind |-> "list", entries |-> Truncate(SolvedSubmissions(subs), count)]

RecentInit ==
    /\ rcPc = "idle"
    /\ rcCount = 10
    /\ rcSubs = <<>>
    /\ rcReply = [kind |-> "none", entries |-> <<>>]

RecentDormant == RecentInit

\* get_solved_problems(handle, count) awaits user.status(handle, count=100).
RecentCall(count) ==
    /\ rcPc = "idle"
    /\ rcCount' = count
    /\ rcPc' = "awaiting"
    /\ UNCHANGED <<rcSubs, rcReply, notRecent>>

\* user.status raised: except Exception -> McpError(code=500)
RecentStatusFails ==
    /\ rcPc = "awaiting"
    /\ rcReply' = [kind |-> "error 500", entries |-> <<>>]
    /\ rcPc' = "done"
    /\ UNCHANGED <<rcCount, rcSubs, notRecent>>

\* user.status returned the submissions: lines 189-208.
RecentStatusReturns(subs) ==
    /\ rcPc = "awaiting"
    /\ rcSubs' = subs
    /\ rcReply' = RecentReply(subs, rcCount)
    /\ rcPc' = "done"
    /\ UNCHANGED <<rcCount, notRecent>>

RecentNext ==
    \/ \E count \in RecentCounts : RecentCall(count)
    \/ RecentStatusFails
    \/ \E subs \in SubmissionLists : RecentStatusReturns(subs)

(***************************************************************************)
(* ConversationManager.process_message (conversation_manager.py)           *)
(***************************************************************************)
\* The parts of a model response: a function call, a text, or a part with
\* neither.
PartKinds == {"call", "text", "blank"}

ModelResponses == UNION {[1..n -> PartKinds] : n \in 0..MaxParts}

\* What bridge.handle_gemini_function_call returns: the tool's text, or the
\* text of a failure (it raises nothing).
FunctionResults == {"Rating: 1500", "Error calling MCP tool recommend_problems: boom"}

\* What reading .text of a response gives: a text, nothing, or an exception
\* of the client library.
TextReads == {"text", "empty", "raises"}

\* A faulty variant of FunctionResponse: the result is left out.
FunctionResponseWithoutResult(part, function_result) ==
    [op |-> "respond", part |-> part, result |-> ""]

\* genai.protos.Part(function_response=FunctionResponse(name=...,
\* response={"result": function_result})), sent for the call at `part`.
FunctionResponse(part, function_result) ==
    [op |-> "respond", part |-> part, result |-> function_result]

\* return "\n".join(result_parts) if result_parts else "No response generated."
Joined(result_parts) ==
    IF result_parts # <<>> THEN [kind |-> "joined", parts |-> result_parts]
    ELSE [kind |-> "none generated", parts |-> <<>>]

\* except Exception as e: return f"Error processing message: {str(e)}"
ErrorText == [kind |-> "error", parts |-> <<>>]

ConversationInit ==
    /\ cvPc = "idle"
    /\ cvParts = <<>>
    /\ cvIndex = 1
    /\ cvLog = <<>>
    /\ cvResults = <<>>
    /\ cvReturn = [kind |-> "none", parts |-> <<>>]

ConversationDormant == ConversationInit

\* self.chat.send_message(user_message) raises, or the response has no
\* candidate.
ConvSendRaises ==
    /\ cvPc = "idle"
    /\ cvReturn' = ErrorText
    /\ cvPc' = "done"
    /\ UNCHANGED <<cvParts, cvIndex, cvLog, cvResults, notConversation>>

\* The model answered: with parts the loop starts; without parts
\* response.text is read, which is empty or raises.
ConvSendReturns(parts, text) ==
    /\ cvPc = "idle"
    /\ (parts # <<>>) = (text = "text")
    /\ cvParts' = parts
    /\ IF parts # <<>>
       THEN /\ cvPc' = "looping"
            /\ UNCHANGED cvReturn
       ELSE /\ cvPc' = "done"
            /\ cvReturn' = IF text = "raises" THEN ErrorText ELSE Joined(<<>>)
    /\ UNCHANGED <<cvIndex, cvLog, cvResults, notConversation>>

\* A part that is no function call: its text, if any, joins the results.
ConvTakePart ==
    /\ cvPc = "looping"
    /\ cvIndex <= Len(cvParts)
    /\ cvParts[cvIndex] # "call"
    /\ cvResults' = IF cvParts[cvIndex] = "text"
                    THEN Append(cvResults, "part text") ELSE cvResults
    /\ cvIndex' = cvIndex + 1
    /\ UNCHANGED <<cvPc, cvParts, cvLog, cvReturn, notConversation>>

\* A function call: await bridge.handle_gemini_function_call(...)
ConvDispatch(function_result) ==
    /\ cvPc = "looping"
    /\ cvIndex <= Len(cvParts)
    /\ cvParts[cvIndex] = "call"
    /\ cvLog' = Append(cvLog, [op |-> "dispatch", part |-> cvIndex,
                              result |-> function_result])
    /\ cvResults' = Append(cvResults, function_result)
    /\ cvPc' = "dispatched"
    /\ UNCHANGED <<cvParts, cvIndex, cvReturn, notConversation>>

\* The function response is sent: the follow-up comes back and its text,
\* if any, joins the results, or sending or reading the text raises.
ConvRespond(text) ==
    /\ cvPc = "dispatched"
    /\ cvLog' = Append(cvLog, FunctionResponse(cvIndex, cvLog[Len(cvLog)].result))
    /\ IF text = "raises"
       THEN /\ cvReturn' = ErrorText
            /\ cvPc' = "done"
            /\ UNCHANGED <<cvIndex, cvResults>>
       ELSE /\ cvResults' = IF text = "text"
                            THEN Append(cvResults, "follow-up text") ELSE cvResults
            /\ cvIndex' = cvIndex + 1
            /\ cvPc' = "looping"
            /\ UNCHANGED cvReturn
    /\ UNCHANGED <<cvParts, notConversation>>

\* The loop is over: the joined results are returned.
ConvReturn ==
    /\ cvPc = "looping"
    /\ cvIndex > Len(cvParts)
    /\ cvReturn' = Joined(cvResults)
    /\ cvPc' = "done"
    /\ UNCHANGED <<cvParts, cvIndex, cvLog, cvResults, notConversation>>

ConversationNext ==
    \/ ConvSendRaises
    \/ \E parts \in ModelResponses, text \in TextReads : ConvSendReturns(parts, text)
    \/ ConvTakePart
    \/ \E function_result \in FunctionResults : ConvDispatch(function_result)
    \/ \E text \in TextReads : ConvRespond(text)
    \/ ConvReturn

(***************************************************************************)
(* get_codeforces_user_stats: the leaderboard (tools/codeforces_tools.py)  *)
(***************************************************************************)
\* One block of the reply: the handle, the sort key u.get('rating', 0) and
\* the rating as shown, 'N/A' for a user without one.
StatsRow(user) ==
    [handle |-> user.handle, current_rating |-> user.rating,
     shown |-> IF user.rank = "Unrated" THEN NA ELSE user.rating]

\* users_info.sort(key=rating, reverse=True), then one block per user.
Leaderboard(users_info) ==
    [kind |-> "stats",
     rows |-> SortByRatingDesc([k \in 1..Len(users_info) |-> StatsRow(users_info[k])])]

StatsText(kind) == [kind |-> kind, rows |-> <<>>]

StatsInit ==
    /\ stPc = "idle"
    /\ stHandles = <<>>
    /\ stUsersInfo = <<>>
    /\ stReply = StatsText("none")

StatsDormant == StatsInit

\* get_codeforces_user_stats(handles) with no DEFAULT_HANDLE configured:
\* an empty list is refused, otherwise user.info is awaited.
StatsStart(hs) ==
    /\ stPc = "idle"
    /\ stHandles' = hs
    /\ IF hs = <<>>
       THEN stPc' = "done" /\ stReply' = StatsText("error 400")
       ELSE stPc' = "user_info" /\ UNCHANGED stReply
    /\ UNCHANGED <<stUsersInfo, notStats>>

\* user.info raised: except Exception -> McpError(code=500)
StatsUserInfoFails ==
    /\ stPc = "user_info"
    /\ stReply' = StatsText("error 500")
    /\ stPc' = "done"
    /\ UNCHANGED <<stHandles, stUsersInfo, notStats>>

\* user.info returned the users the platform knows, in request order.
StatsUserInfoReturns(known) ==
    /\ stPc = "user_info"
    /\ DOMAIN known \subseteq Range(stHandles)
    /\ LET found == SelectSeq(stHandles, LAMBDA h : h \in DOMAIN known)
           users_info == [i \in 1..Len(found) |-> User(found[i], known[found[i]])]
       IN /\ stUsersInfo' = users_info
          /\ stReply' = IF users_info = <<>> THEN StatsText("not_found")
                        ELSE Leaderboard(users_info)
    /\ stPc' = "done"
    /\ UNCHANGED <<stHandles, notStats>>

StatsNext ==
    \/ \E hs \in HandleLists : StatsStart(hs)
    \/ StatsUserInfoFails
    \/ \E known \in KnownUsers : StatsUserInfoReturns(known)

\* One of the two ranking tools is called.
RankingNext ==
    \/ stPc = "idle" /\ CompareNext
    \/ cmpPc = "idle" /\ StatsNext

(***************************************************************************)
(* get_upcoming_contests (tools/contest_tools.py, api_clients/clist.py)    *)
(***************************************************************************)
\* CListAPI.PLATFORM_MAPPING
PlatformMapping ==
    [codeforces |-> "codeforces.com", leetcode |-> "leetcode.com",
     codechef |-> "codechef.com", atcoder |-> "atcoder.jp",
     topcoder |-> "topcoder.com", codingninjas |-> "codingninjas.com/codestudio"]

\* The platforms argument: absent, empty, or names of which some are in the
\* mapping and some are not.
PlatformLists ==
    {AbsentList, <<>>, <<"atcoder">>, <<"spoj">>, <<"Codeforces">>,
     <<"spoj", "hackerrank">>, <<"spoj", "topcoder", "codeforces">>,
     <<"codingninjas", "hackerrank", "leetcode">>}

\* The limit argument: small values, and the default of the signature.
ContestLimits == 0..MaxCount \cup {10}

\* What the aggregator can return: up to MaxContests contests in any order.
ContestLists ==
    UNION {{cs \in [1..n -> 1..MaxContests] :
               \A a, b \in 1..n : a # b => cs[a] # cs[b]} : n \in 0..MaxContests}

\* A faulty variant of ResourceNames: unknown names are passed on as they are.
ResourceNamesKeepUnknown(platforms) ==
    [k \in 1..Len(platforms) |->
       IF platforms[k] \in DOMAIN PlatformMapping
       THEN PlatformMapping[platforms[k]] ELSE platforms[k]]

\* resource_names = [PLATFORM_MAPPING[p] for p in platforms if p in PLATFORM_MAPPING]
ResourceNames(platforms) ==
    LET known == SelectSeq(platforms, LAMBDA p : p \in DOMAIN PlatformMapping)
    IN [k \in 1..Len(known) |-> PlatformMapping[known[k]]]

\* The reply of the tool for the contests the client returned.
ContestsReply(contests, limit) ==
    IF contests = <<>> THEN [kind |-> "no contests", entries |-> <<>>]
    ELSE [kind |-> "contests", entries |-> Truncate(contests, limit)]

ContestsInit ==
    /\ ctPc = "idle"
    /\ ctArgs = [platforms |-> AbsentList, limit |-> 10]
    /\ ctRequests = <<>>
    /\ ctUpstream = <<>>
    /\ ctReply = [kind |-> "none", entries |-> <<>>]

ContestsDormant == ContestsInit

\* get_upcoming_contests(platforms, limit) calls the client, which returns
\* [] at once when no name is left, and otherwise issues its request.
ContestsCall(platforms, limit) ==
    /\ ctPc = "idle"
    /\ ctArgs' = [platforms |-> platforms, limit |-> limit]
    /\ LET resource_names == ResourceNames(TargetPlatforms(platforms))
       IN IF resource_names = <<>>
          THEN /\ ctReply' = ContestsReply(<<>>, limit)
               /\ ctPc' = "done"
               /\ UNCHANGED ctRequests
          ELSE /\ ctRequests' = <<[order_by |-> "start", resource__in |-> resource_names]>>
               /\ ctPc' = "awaiting"
               /\ UNCHANGED ctReply
    /\ UNCHANGED <<ctUpstream, notContests>>

\* The request failed: except Exception -> McpError(code=500)
ContestsUpstreamFails ==
    /\ ctPc = "awaiting"
    /\ ctReply' = [kind |-> "error 500", entries |-> <<>>]
    /\ ctPc' = "done"
    /\ UNCHANGED <<ctArgs, ctRequests, ctUpstream, notContests>>

\* The aggregator answered with its "objects".
ContestsUpstreamReturns(contests) ==
    /\ ctPc = "awaiting"
    /\ ctUpstream' = contests
    /\ ctReply' = ContestsReply(contests, ctArgs.limit)
    /\ ctPc' = "done"
    /\ UNCHANGED <<ctArgs, ctRequests, notContests>>

ContestsNext ==
    \/ \E platforms \in PlatformLists, limit \in ContestLimits :
          ContestsCall(platforms, limit)
    \/ ContestsUpstreamFails
    \/ \E contests \in ContestLists : ContestsUpstreamReturns(contests)

(***************************************************************************)
(* Specifications                                                          *)
(***************************************************************************)
InitClient == ClientInit /\ CompareDormant /\ ToolsDormant /\ FanDormant /\ BridgeDormant /\ SolvedDormant /\ RecommendDormant /\ HistogramDormant /\ PerformanceDormant /\ DefaultsDormant /\ ImageDormant /\ RegistryDormant /\ LifecycleDormant /\ IdentityDormant /\ RecentDormant /\ ConversationDormant /\ StatsDormant /\ ContestsDormant

SpecClient == InitClient /\ [][ClientNext]_vars

InitCompare == ClientDormant /\ CompareInit /\ ToolsDormant /\ FanDormant /\ BridgeDormant /\ SolvedDormant /\ RecommendDormant /\ HistogramDormant /\ PerformanceDormant /\ DefaultsDormant /\ ImageDormant /\ RegistryDormant /\ LifecycleDormant /\ IdentityDormant /\ RecentDormant /\ ConversationDormant /\ StatsDormant /\ ContestsDormant

SpecCompare == InitCompare /\ [][CompareNext]_vars

InitTools == ClientDormant /\ CompareDormant /\ ToolsInit /\ FanDormant /\ BridgeDormant /\ SolvedDormant /\ RecommendDormant /\ HistogramDormant /\ PerformanceDormant /\ DefaultsDormant /\ ImageDormant /\ RegistryDormant /\ LifecycleDormant /\ IdentityDormant /\ RecentDormant /\ ConversationDormant /\ StatsDormant /\ ContestsDormant

SpecTools == InitTools /\ [][ToolsNext]_vars

InitFan == ClientDormant /\ CompareDormant /\ ToolsDormant /\ FanInit /\ BridgeDormant /\ SolvedDormant /\ RecommendDormant /\ HistogramDormant /\ PerformanceDormant /\ DefaultsDormant /\ ImageDormant /\ RegistryDormant /\ LifecycleDormant /\ IdentityDormant /\ RecentDormant /\ ConversationDormant /\ StatsDormant /\ ContestsDormant

SpecFan == InitFan /\ [][FanNext]_vars

InitBridge == ClientDormant /\ CompareDormant /\ ToolsDormant /\ FanDormant /\ BridgeInit /\ SolvedDormant /\ RecommendDormant /\ HistogramDormant /\ PerformanceDormant /\ DefaultsDormant /\ ImageDormant /\ RegistryDormant /\ LifecycleDormant /\ IdentityDormant /\ RecentDormant /\ ConversationDormant /\ StatsDormant /\ ContestsDormant

SpecBridge == InitBridge /\ [][BridgeNext]_vars

InitSolved == ClientDormant /\ CompareDormant /\ ToolsDormant /\ FanDormant /\ BridgeDormant /\ SolvedInit /\ RecommendDormant /\ HistogramDormant /\ PerformanceDormant /\ DefaultsDormant /\ ImageDormant /\ RegistryDormant /\ LifecycleDormant /\ IdentityDormant /\ RecentDormant /\ ConversationDormant /\ StatsDormant /\ ContestsDormant

SpecSolved == InitSolved /\ [][SolvedNext]_vars

InitRecommend == ClientDormant /\ CompareDormant /\ ToolsDormant /\ FanDormant /\ BridgeDormant /\ SolvedDormant /\ RecommendInit /\ HistogramDormant /\ PerformanceDormant /\ DefaultsDormant /\ ImageDormant /\ RegistryDormant /\ LifecycleDormant /\ IdentityDormant /\ RecentDormant /\ ConversationDormant /\ StatsDormant /\ ContestsDormant

SpecRecommend == InitRecommend /\ [][RecommendNext]_vars

InitHistogram == ClientDormant /\ CompareDormant /\ ToolsDormant /\ FanDormant /\ BridgeDormant /\ SolvedDormant /\ RecommendDormant /\ HistogramInit /\ PerformanceDormant /\ DefaultsDormant /\ ImageDormant /\ RegistryDormant /\ LifecycleDormant /\ IdentityDormant /\ RecentDormant /\ ConversationDormant /\ StatsDormant /\ ContestsDormant

SpecHistogram == InitHistogram /\ [][HistogramNext]_vars

InitPerformance == ClientDormant /\ CompareDormant /\ ToolsDormant /\ FanDormant /\ BridgeDormant /\ SolvedDormant /\ RecommendDormant /\ HistogramDormant /\ PerformanceInit /\ DefaultsDormant /\ ImageDormant /\ RegistryDormant /\ LifecycleDormant /\ IdentityDormant /\ RecentDormant /\ ConversationDormant /\ StatsDormant /\ ContestsDormant

SpecPerformance == InitPerformance /\ [][PerformanceNext]_vars

InitDefaults == ClientDormant /\ CompareDormant /\ ToolsDormant /\ FanDormant /\ BridgeDormant /\ SolvedDormant /\ RecommendDormant /\ HistogramDormant /\ PerformanceDormant /\ DefaultsInit /\ ImageDormant /\ RegistryDormant /\ LifecycleDormant /\ IdentityDormant /\ RecentDormant /\ ConversationDormant /\ StatsDormant /\ ContestsDormant

SpecDefaults == InitDefaults /\ [][DefaultsNext]_vars

InitImage == ClientDormant /\ CompareDormant /\ ToolsDormant /\ FanDormant /\ BridgeDormant /\ SolvedDormant /\ RecommendDormant /\ HistogramDormant /\ PerformanceDormant /\ DefaultsDormant /\ ImageInit /\ RegistryDormant /\ LifecycleDormant /\ IdentityDormant /\ RecentDormant /\ ConversationDormant /\ StatsDormant /\ ContestsDormant

SpecImage == InitImage /\ [][ImageNext]_vars

InitRegistry == ClientDormant /\ CompareDormant /\ ToolsDormant /\ FanDormant /\ BridgeDormant /\ SolvedDormant /\ RecommendDormant /\ HistogramDormant /\ PerformanceDormant /\ DefaultsDormant /\ ImageDormant /\ RegistryInit /\ LifecycleDormant /\ IdentityDormant /\ RecentDormant /\ ConversationDormant /\ StatsDormant /\ ContestsDormant

SpecRegistry == InitRegistry /\ [][RegistryNext]_vars

InitLifecycle == ClientDormant /\ CompareDormant /\ ToolsDormant /\ FanDormant /\ BridgeDormant /\ SolvedDormant /\ RecommendDormant /\ HistogramDormant /\ PerformanceDormant /\ DefaultsDormant /\ ImageDormant /\ RegistryDormant /\ LifecycleInit /\ IdentityDormant /\ RecentDormant /\ ConversationDormant /\ StatsDormant /\ ContestsDormant

SpecLifecycle == InitLifecycle /\ [][LifecycleNext]_vars

SpecKeepAlive == InitLifecycle /\ [][LifecycleNext]_vars /\ KeepAliveFairness

InitIdentity == ClientDormant /\ CompareDormant /\ ToolsDormant /\ FanDormant /\ BridgeDormant /\ SolvedDormant /\ RecommendDormant /\ HistogramDormant /\ PerformanceDormant /\ DefaultsDormant /\ ImageDormant /\ RegistryDormant /\ LifecycleDormant /\ IdentityInit /\ RecentDormant /\ ConversationDormant /\ StatsDormant /\ ContestsDormant

SpecIdentity == InitIdentity /\ [][IdentityNext]_vars

InitRecent == ClientDormant /\ CompareDormant /\ ToolsDormant /\ FanDormant /\ BridgeDormant /\ SolvedDormant /\ RecommendDormant /\ HistogramDormant /\ PerformanceDormant /\ DefaultsDormant /\ ImageDormant /\ RegistryDormant /\ LifecycleDormant /\ IdentityDormant /\ RecentInit /\ ConversationDormant /\ StatsDormant /\ ContestsDormant

SpecRecent == InitRecent /\ [][RecentNext]_vars

InitConversation == ClientDormant /\ CompareDormant /\ ToolsDormant /\ FanDormant /\ BridgeDormant /\ SolvedDormant /\ RecommendDormant /\ HistogramDormant /\ PerformanceDormant /\ DefaultsDormant /\ ImageDormant /\ RegistryDormant /\ LifecycleDormant /\ IdentityDormant /\ RecentDormant /\ ConversationInit /\ StatsDormant /\ ContestsDormant

SpecConversation == InitConversation /\ [][ConversationNext]_vars

InitRanking == ClientDormant /\ CompareInit /\ ToolsDormant /\ FanDormant /\ BridgeDormant /\ SolvedDormant /\ RecommendDormant /\ HistogramDormant /\ PerformanceDormant /\ DefaultsDormant /\ ImageDormant /\ RegistryDormant /\ LifecycleDormant /\ IdentityDormant /\ RecentDormant /\ ConversationDormant /\ StatsInit /\ ContestsDormant

SpecRanking == InitRanking /\ [][RankingNext]_vars

InitContests == ClientDormant /\ CompareDormant /\ ToolsDormant /\ FanDormant /\ BridgeDormant /\ SolvedDormant /\ RecommendDormant /\ HistogramDormant /\ PerformanceDormant /\ DefaultsDormant /\ ImageDormant /\ RegistryDormant /\ LifecycleDormant /\ IdentityDormant /\ RecentDormant /\ ConversationDormant /\ StatsDormant /\ ContestsInit

SpecContests == InitContests /\ [][ContestsNext]_vars

(***************************************************************************)
(* Claims about the client layer                                           *)
(***************************************************************************)
ClientFailed == clPc = "done" /\ clOutcome.tag = "raise"

\* C7: every failure of an upstream client call reaches the handler as an
\* ApiError carrying the HTTP status code (non-2xx response) or as a
\* NetworkError (connection/timeout failure); no other exception kind,
\* such as a failure to decode the response body, escapes the client layer.
C7_OnlyApiOrNetworkErrors ==
    ClientFailed =>
        /\ clOutcome.exc = "McpError"
        /\ (clResp.kind = "request_error" => clOutcome.msg = "Network connection error")
        /\ (clResp.kind = "response" /\ ~Is2xx(clResp.status) =>
                clOutcome.msg = "API Error" /\ clOutcome.code = clResp.status)

\* C8: in every upstream integration a 2xx response whose payload carries an
\* application-level error is converted to an ApiError and is never returned
\* to the handler as a successful result.
C8_TwoTierCheckEverywhere ==
    (clPc = "done" /\ clResp.kind = "response" /\ Is2xx(clResp.status)
         /\ clResp.body = "app_error")
        => (clOutcome.tag = "raise" /\ clOutcome.exc = "McpError")

\* C9: each invocation of ApiClient.get / ApiClient.post issues exactly one
\* outbound request: none before the await, one from then on, and a failed
\* request is never followed by a second one.
C9_OneRequestPerInvocation ==
    /\ (clPc \in {"idle", "send"} => clRequests = 0)
    /\ (clPc \in {"wait", "finish", "done"} => clRequests = 1)

\* C9 witness: an invocation has ended in an error after its single request.
C9_Witness_FailedAfterOneRequest ==
    /\ ClientFailed
    /\ clOutcome.exc = "McpError"
    /\ clRequests = 1

(***************************************************************************)
(* Claims about compare_codeforces_users                                   *)
(***************************************************************************)
CmpFound == {cmpUsersInfo[i].handle : i \in 1..Len(cmpUsersInfo)}
CmpMissing == Range(cmpHandles) \ CmpFound
CmpUserInfoAnswered == cmpPc = "done" /\ cmpResult.kind \notin {"too_few", "failed"}
CmpRowHandles == {cmpResult.rows[i].handle : i \in 1..Len(cmpResult.rows)}

\* C1: when some of two or more handles are missing from the user-info
\* result, the returned comparison has a row for every handle that was found
\* and a 'not found' entry for every missing handle; a missing handle never
\* empties the comparison of the others.
C1_MissingHandleKeepsOtherRows ==
    (CmpUserInfoAnswered /\ Len(cmpHandles) >= 2 /\ CmpMissing # {}) =>
        /\ Range(cmpResult.missing) = CmpMissing
        /\ CmpRowHandles = CmpFound

\* C2: when user.info answers for all handles and the rating-history or the
\* submission-history call fails for some user, the result is a comparison
\* with one row per user; the failing user's row keeps handle, rating, peak
\* rating and rank, shows 'N/A' for contests and recent activity and carries
\* the limited-data marker; the other users' rows are complete.
C2_EnrichmentFailureDegradesOneRow ==
    (CmpUserInfoAnswered /\ Len(cmpHandles) >= 2 /\ CmpMissing = {}) =>
        /\ cmpResult.kind = "comparison"
        /\ Len(cmpResult.rows) = Len(cmpHandles)
        /\ \A i \in 1..Len(cmpUsersInfo) :
             LET user == cmpUsersInfo[i]
                 up == cmpUpstream[user.handle]
             IN \E j \in 1..Len(cmpResult.rows) :
                  LET row == cmpResult.rows[j] IN
                  /\ row.handle = user.handle
                  /\ row.current_rating = user.rating
                  /\ row.max_rating = user.maxRating
                  /\ row.rank = user.rank
                  /\ IF up.rating = CallFailed \/ up.status = CallFailed
                     THEN row.contests_count = NA /\ row.recent_activity = NA /\ row.error
                     ELSE /\ row.contests_count = up.rating
                          /\ row.recent_activity = up.status
                          /\ ~row.error

\* C2 witness: a finished comparison with a degraded row next to a complete one.
C2_Witness_DegradedAndCompleteRow ==
    /\ cmpPc = "done"
    /\ cmpResult.kind = "comparison"
    /\ \E i, j \in 1..Len(cmpResult.rows) :
         /\ cmpResult.rows[i].error
         /\ cmpResult.rows[i].contests_count = NA
         /\ ~cmpResult.rows[j].error
         /\ cmpResult.rows[j].contests_count # NA

(***************************************************************************)
(* Claims about the multi-handle fan-outs and the tool invocations         *)
(***************************************************************************)
InvDone(i) == invPc[i] = "done"
InvFailing(i) == {h \in Range(invHandles[i]) : invFetch[i][h] \in {"fail", "empty"}}
InvAnswered(i) == {h \in Range(invHandles[i]) : invFetch[i][h] = "ok"}

\* C3: in plot_rating_graph and generate_comparison_card, when the fetch
\* for one handle fails (or the user does not exist) the handler still
\* returns a result built from the other handles, and that result shows a
\* visible marker for the failing handle.
C3_FanOutFailureIsMarkedNotFatal ==
    \A i \in Invocations :
        (InvDone(i) /\ InvFailing(i) # {} /\ InvAnswered(i) # {}) =>
            /\ invResult[i].kind = "image"
            /\ InvAnswered(i) \subseteq invResult[i].image.lines
            /\ InvFailing(i) \subseteq invResult[i].markers

\* C5: for any interleaving of concurrently running plot_rating_graph
\* invocations, the image an invocation returns is rendered from the figure
\* this invocation created and plotted its own handles on, and no invocation
\* saves or closes a figure of another one.
C5_InvocationsShareNoFigure ==
    \A i \in Invocations :
        invTool[i] = "plot_rating_graph" =>
            /\ invSaved[i] \in {0, invFig[i]}
            /\ invClosed[i] \subseteq {invFig[i]}
            /\ (InvDone(i) /\ invResult[i].kind = "image" =>
                    /\ invResult[i].image.fig = invFig[i]
                    /\ invResult[i].image.lines = InvAnswered(i))

\* C4: in every handler that needs several independent upstream calls for
\* one request, all sibling calls are issued before any of them has ended
\* (they are in flight at the same time), and the merge starts only after
\* all of them have ended.
C4_SiblingCallsInFlightTogether ==
    LET siblings == SiblingCalls(fanHandler, fanHandles) IN
    fanPc \in {"awaiting", "merging"} =>
        /\ (fanEnded \cap siblings # {} => siblings \subseteq fanIssued)
        /\ (fanPc = "merging" => siblings \subseteq fanEnded)

(***************************************************************************)
(* Claims about the bridge                                                 *)
(***************************************************************************)
\* C6: when a handler returns an ordered sequence of text and image parts,
\* the bridge's output to its caller holds the same parts in the same order,
\* every image part with its payload and MIME type; nothing is dropped,
\* merged, reordered or rewritten.
C6_BridgeForwardsPartsUnchanged ==
    (brPc = "done" /\ brContent # <<>>) => brOutput = brContent

\* C18: a dispatch through the bridge fails with a DispatchError of the right
\* kind: NotFound for a name that resolves to no tool, without any handler
\* being invoked, and HandlerFailed for a fault raised by the handler; the
\* outcome is an error the caller can tell apart from a successful result,
\* and no exception leaves the bridge.
C18_DispatchFailuresAreTypedErrors ==
    (brPc = "done" /\ brFault # "none")
    => /\ brOutput # <<>>
       /\ (brFault = "not_found" => ~brHandlerRan)
       /\ \A k \in 1..Len(brOutput) :
             /\ brOutput[k].type = "error"
             /\ brOutput[k].text = (IF brFault = "not_found"
                                    THEN "NotFound" ELSE "HandlerFailed")

(***************************************************************************)
(* Claims about the solved problems                                        *)
(***************************************************************************)
\* The (contest identifier, problem index) pairs with an accepted submission.
SolvedPairs(subs) ==
    {<<subs[k].problem.contestId, subs[k].problem.index>> :
        k \in {n \in 1..Len(subs) : subs[n].verdict = "OK"}}

RatedSolvedPairs(subs) ==
    {<<subs[k].problem.contestId, subs[k].problem.index>> :
        k \in {n \in 1..Len(subs) :
                 subs[n].verdict = "OK" /\ subs[n].problem.rating # NoRating}}

RatingHandlers == {"get_solved_rating_histogram", "plot_solved_rating_distribution"}

\* C10: wherever a handler derives the solved problems from a submission
\* list, a problem identified by (contest identifier, problem index) is
\* counted exactly once however many accepted submissions it has, problems
\* with different pairs are never merged, and submissions that are not
\* accepted contribute nothing: the number of solved problems the handler
\* derives is the number of distinct pairs with an accepted submission
\* (in the two rating handlers: of those whose problem carries a rating).
C10_SolvedCountedOncePerPair ==
    solHandler # "none" =>
        solCount = IF solHandler \in RatingHandlers
                   THEN Cardinality(RatedSolvedPairs(solSubs))
                   ELSE Cardinality(SolvedPairs(solSubs))

\* C10 witness: recommend_problems scanned a list with two accepted
\* submissions of one problem, an accepted submission of another problem and
\* a rejected submission of a third one, and derived two solved problems.
C10_Witness_DuplicateAndRejected ==
    /\ solHandler = "recommend_problems"
    /\ Len(solSubs) >= 3
    /\ \E a, b \in 1..Len(solSubs) :
         /\ a # b
         /\ solSubs[a].verdict = "OK" /\ solSubs[b].verdict = "OK"
         /\ solSubs[a].problem = solSubs[b].problem
    /\ Cardinality(SolvedPairs(solSubs)) < Len(Accepted(solSubs))
    /\ solCount = Cardinality(SolvedPairs(solSubs))
    /\ solCount >= 1

(***************************************************************************)
(* Claims about recommend_problems                                         *)
(***************************************************************************)
RecAnswered == recPc = "done" /\ recResult.kind \in {"recommended", "none_found"}

\* The filter ran: user.info answered with a user and both gathered calls
\* returned.
RecFiltered ==
    /\ recPc = "done"
    /\ recInfo \notin {NotCalled, CallFailed, NoUser}
    /\ recResult.detail # "upstream failure"

RecUnsolved(i) ==
    <<ProblemsetProblems[i].contestId, ProblemsetProblems[i].index>>
        \notin SolvedPairs(recSubs)

\* The problems a window [lo, hi] admits for this user.
RecQualifying(lo, hi) ==
    {i \in ProblemsetIndices :
        /\ RecUnsolved(i)
        /\ ProblemsetProblems[i].rating # NoRating
        /\ lo <= ProblemsetProblems[i].rating
        /\ ProblemsetProblems[i].rating <= hi}

\* C11: with neither min_rating nor max_rating supplied, the window that
\* filters the problems and that the reply shows is
\* [current_rating, current_rating + 199], current_rating being the rating
\* user.info returned.
C11_DefaultWindowFromCurrentRating ==
    (/\ RecFiltered
     /\ recArgs.min_rating = None /\ recArgs.max_rating = None
     /\ recInfo # NoRating)
    => /\ RecAnswered
       /\ recResult.min = recInfo
       /\ recResult.max = recInfo + 199
       /\ Range(recCandidates) = RecQualifying(recInfo, recInfo + 199)

C11_Witness_DefaultWindowRecommends ==
    /\ RecFiltered
    /\ recArgs.min_rating = None /\ recArgs.max_rating = None
    /\ recInfo = 1300
    /\ recResult.kind = "recommended"
    /\ Range(recResult.problems) = {2, 3}

\* C12: each bound defaults on its own (min_rating to the current rating,
\* max_rating to the current rating + 199), also when the other bound is
\* supplied, and the call then answers for that window.
C12_EachBoundDefaultsOnItsOwn ==
    RecFiltered
    => /\ RecAnswered
       /\ recResult.min = (IF recArgs.min_rating = None
                           THEN CurrentRating(recInfo) ELSE recArgs.min_rating)
       /\ recResult.max = (IF recArgs.max_rating = None
                           THEN CurrentRating(recInfo) + 199 ELSE recArgs.max_rating)

\* C13: every recommended problem is unsolved, rated and inside the
\* inclusive window; min(count, number of qualifying problems) problems are
\* returned, all different.
C13_RecommendedAreQualifying ==
    (recPc = "done" /\ recResult.kind = "recommended")
    => LET qualifying == RecQualifying(recResult.min, recResult.max)
           returned == recResult.problems
       IN /\ recResult.min # None /\ recResult.max # None
          /\ \A k \in 1..Len(returned) :
                /\ RecUnsolved(returned[k])
                /\ ProblemsetProblems[returned[k]].rating # NoRating
                /\ recResult.min <= ProblemsetProblems[returned[k]].rating
                /\ ProblemsetProblems[returned[k]].rating <= recResult.max
          /\ Range(returned) \subseteq qualifying
          /\ Cardinality(Range(returned)) = Len(returned)
          /\ Len(returned) = (IF recArgs.count < Cardinality(qualifying)
                              THEN recArgs.count ELSE Cardinality(qualifying))

\* One of two qualifying problems is returned, and it is not the first one
\* in problem-set order: the shuffle came before the truncation.
C13_Witness_ShuffledThenTruncated ==
    /\ recPc = "done" /\ recResult.kind = "recommended"
    /\ recArgs.count = 1
    /\ recCandidates = <<2, 3>>
    /\ recResult.problems = <<3>>

\* The example of the claim: a window of [1300, 1400] over problems rated
\* 1200, 1300, 1400 and 1500.
RecExampleWindow ==
    /\ RecFiltered /\ RecAnswered
    /\ recResult.min = 1300 /\ recResult.max = 1400

RecInExampleWindow == {i \in ProblemsetIndices :
                         ProblemsetProblems[i].rating \in {1300, 1400}}

\* C14 as stated: with the example window exactly two candidates qualify,
\* whatever the solved set.
C14_TwoQualifyForEverySolvedSet ==
    RecExampleWindow => Len(recCandidates) = 2

\* C14 amended: with the example window the candidates that qualify are
\* the 1300 and 1400 ones the user has not solved (two when neither is
\* solved); the 1200 and 1500 ones never qualify.
C14_InWindowUnsolvedQualify ==
    RecExampleWindow
    => /\ Range(recCandidates) = {i \in RecInExampleWindow : RecUnsolved(i)}
       /\ Len(recCandidates) = Cardinality(Range(recCandidates))
       /\ ((\A i \in RecInExampleWindow : RecUnsolved(i)) => Len(recCandidates) = 2)

C14_Witness_SolvedCandidateDropped ==
    /\ RecExampleWindow
    /\ ~RecUnsolved(2)
    /\ recCandidates = <<3>>

(***************************************************************************)
(* Claims about get_solved_rating_histogram                                *)
(***************************************************************************)
\* The rating of a solved (contest, index) pair.
HistRatingOf(pair) ==
    (CHOOSE p \in PlatformProblems : p.contestId = pair[1] /\ p.index = pair[2]).rating

RECURSIVE HistSumCounts(_)
HistSumCounts(rows) ==
    IF rows = <<>> THEN 0 ELSE Head(rows).count + HistSumCounts(Tail(rows))

\* C15: every distinct solved rated problem is counted in exactly one
\* bucket, floor(rating / bin_size) * bin_size, so the counts sum to the
\* number of distinct solved rated problems; buckets are listed in
\* increasing order.
C15_EachRatedProblemInItsBucket ==
    (histPc = "done" /\ histResult.kind \in {"histogram", "no_rated_problems"})
    => LET rows == histResult.rows
           pairs == RatedSolvedPairs(histSubs)
       IN /\ (histResult.kind = "no_rated_problems") = (pairs = {})
          /\ \A k \in 1..Len(rows) :
                /\ rows[k].rating % histBinSize = 0
                /\ rows[k].count =
                      Cardinality({pair \in pairs :
                          /\ rows[k].rating <= HistRatingOf(pair)
                          /\ HistRatingOf(pair) < rows[k].rating + histBinSize})
                /\ rows[k].count >= 1
          /\ \A k \in 1..(Len(rows) - 1) : rows[k].rating < rows[k + 1].rating
          /\ HistSumCounts(rows) = Cardinality(pairs)
          /\ RatingBin(1050, 100) = 1000
          /\ RatingBin(1050, 200) = 1000
          /\ RatingBin(999, 100) = 900

\* Bins of 200: the 1050 problem, accepted twice, is counted once in bucket
\* 1000; the 999 problem is counted in bucket 800.
C15_Witness_TwoBucketsOfTwoHundred ==
    /\ histPc = "done"
    /\ histBinSize = 200
    /\ Len(histSubs) = 3
    /\ \A k \in 1..3 : histSubs[k].verdict = "OK"
    /\ histSubs[1].problem.rating = 1050
    /\ histSubs[2].problem.rating = 1050
    /\ histSubs[3].problem.rating = 999
    /\ histResult.rows = <<[rating |-> 800, count |-> 1],
                           [rating |-> 1000, count |-> 1]>>

\* C16: a dispatch with bin_size outside [100, 400] fails argument
\* validation: the handler body is never entered, no upstream call is
\* issued and the caller receives the validation error, not a histogram.
C16_OutOfRangeBinSizeIsRejected ==
    (histPc # "idle" /\ (histBinSize < 100 \/ histBinSize > 400))
    => /\ histPc = "done"
       /\ ~histEntered
       /\ histRequests = 0
       /\ histResult.kind = "validation_error"
       /\ histResult.rows = <<>>

C16_Witness_BinSizeTooLarge ==
    /\ histPc = "done"
    /\ histBinSize = 500
    /\ histResult.kind = "validation_error"

(***************************************************************************)
(* Claims about plot_performance_graph                                     *)
(***************************************************************************)
\* old_rating + 4 * (new_rating - old_rating) over the rating changes the
\* upstream can return.
PerfAmplified ==
    {rc.oldRating + 4 * (rc.newRating - rc.oldRating) : rc \in RatingChangeRecords}

\* C17: the plotted performance of every rating change is
\* old_rating + 4 * (new_rating - old_rating) (1500 -> 1600 gives 1900),
\* there is exactly one value per rating change, and the values are in
\* increasing order of rating-update time.
C17_PerformanceIsAmplifiedDelta ==
    (perfPc = "done" /\ perfResult = "image")
    => /\ Len(perfSeries) = Len(perfChanges)
       /\ \A k \in 1..(Len(perfSeries) - 1) : perfSeries[k].time <= perfSeries[k + 1].time
       /\ \A k \in 1..Len(perfSeries) : perfSeries[k].performance \in PerfAmplified
       /\ \A t \in {100, 200, 300}, v \in PerfAmplified :
             Cardinality({k \in 1..Len(perfSeries) :
                             perfSeries[k].time = t /\ perfSeries[k].performance = v})
             = Cardinality({k \in 1..Len(perfChanges) :
                             /\ perfChanges[k].ratingUpdateTimeSeconds = t
                             /\ perfChanges[k].oldRating
                                + 4 * (perfChanges[k].newRating - perfChanges[k].oldRating) = v})
       /\ \A k \in 1..Len(perfChanges) :
             (perfChanges[k].oldRating = 1500 /\ perfChanges[k].newRating = 1600)
             => \E n \in 1..Len(perfSeries) :
                   /\ perfSeries[n].time = perfChanges[k].ratingUpdateTimeSeconds
                   /\ perfSeries[n].performance = 1900

\* Two changes returned latest first: 1600 -> 1500 at 200 and 1500 -> 1600
\* at 100 are plotted as 1900 at 100, then 1200 at 200.
C17_Witness_SortedAndAmplified ==
    /\ perfPc = "done" /\ perfResult = "image"
    /\ Len(perfChanges) = 2
    /\ perfChanges[1].ratingUpdateTimeSeconds = 200
    /\ perfSeries = <<[time |-> 100, performance |-> 1900],
                      [time |-> 200, performance |-> 1200]>>

(***************************************************************************)
(* Claims about optional parameters                                        *)
(***************************************************************************)
DefaultsBothDone == \A c \in DefaultCalls : dfPc[c] = "done"

C20_ImageToolsReturnCaptionAndImage ==
    (imgPc = "done" /\ imgResult.returned # "raise")
    => /\ imgResult.returned = "list"
       /\ Len(imgResult.parts) = 2
       /\ imgResult.parts[1].type = "text"
       /\ imgResult.parts[1].text # ""
       /\ imgResult.parts[2].type = "image"
       /\ imgResult.parts[2].mimeType = "image/png"
       /\ imgResult.parts[2].data # ""

(***************************************************************************)
(* Claims about the tool registry                                          *)
(***************************************************************************)
\* The names that importing server.py registers.
RegisteredNames == {Registrations[k].name : k \in 1..Len(Registrations)}

\* The module whose decorator registered the name at startup.
StartupHandler(name) ==
    Registrations[CHOOSE k \in 1..Len(Registrations) : Registrations[k].name = name].module

\* C21: the registry is built once at startup with each tool name
\* registered exactly once, and no dispatch, successful or failing, adds,
\* removes or replaces an entry: after any sequence of dispatches every
\* registered name resolves to the handler its decorator registered, no
\* other name resolves, and every dispatch of a registered name ran that
\* handler.
C21_RegistryFixedAfterStartup ==
    regNext > Len(Registrations)
    => /\ \A name \in DispatchNames :
            IF name \in RegisteredNames
            THEN /\ Len(registry[name]) = 1
                 /\ Resolve(registry, name) = StartupHandler(name)
            ELSE ~Known(registry, name)
       /\ \A k \in 1..Len(regLog) :
            IF regLog[k].name \in RegisteredNames
            THEN regLog[k].handler = StartupHandler(regLog[k].name)
            ELSE regLog[k].outcome = "unknown tool"

\* C21 witness: after a dispatch of an unknown name and a dispatch whose
\* handler raised, `about` still resolves to the function of
\* tools/codeforces_tools.py.
C21_Witness_ResolvesAfterFailures ==
    /\ Len(regLog) >= 2
    /\ regLog[1].outcome = "unknown tool"
    /\ regLog[2].outcome = "raised"
    /\ Resolve(registry, "about") = "tools.codeforces_tools"

\* C26: every tool name advertised to the model resolves to a registered
\* handler, so a dispatch of an advertised name runs a handler and never
\* ends as an unknown-tool error.
C26_AdvertisedToolsAreRegistered ==
    regNext > Len(Registrations)
    => /\ \A name \in AdvertisedTools : Known(registry, name)
       /\ \A k \in 1..Len(regLog) :
            regLog[k].name \in AdvertisedTools => regLog[k].outcome # "unknown tool"

(***************************************************************************)
(* Claims about shutdown and the keep-alive task                           *)
(***************************************************************************)
\* C22: on top-level shutdown every long-running background task the
\* application started, the server task and the keep-alive task created in
\* start_server, has been cancelled and has ended before "Application has
\* shut down." is reported.
C22_BackgroundTasksEndBeforeReport ==
    mainPc \in {"reported", "returned", "exited"}
    => /\ srvPc \in {"cancelled", "failed"}
       /\ kaPc \in {"cancelled", "returned"}

SingleSubjectTools ==
    {"generate_profile_card", "generate_achievement_card",
     "plot_performance_graph", "plot_rating_graph", "plot_verdict_distribution"}

\* C23: when a single-subject tool finds that the requested user does not
\* exist or has no data, the error that reaches the caller is of kind
\* NotFound (code 404).
C23_MissingSubjectIsNotFound ==
    (imgPc = "done" /\ imgTool \in SingleSubjectTools /\ imgUpstream = "empty")
    => /\ imgResult.returned = "raise"
       /\ imgResult.code = 404

(***************************************************************************)
(* Claims about the default handle                                         *)
(***************************************************************************)
\* The call carries no handle: what it has is absent or empty.
NoHandleSupplied == idCall.handle \in {Absent, ""} /\ idCall.handles \in {AbsentList, <<>>}

\* C24: for every handle-taking tool, a call without a handle (absent or
\* empty) fails with a code-400 error and issues no upstream call when no
\* default handle is configured; when one is configured the upstream calls
\* are made, and every one that names a handle names the default handle.
C24_DefaultHandleOrBadRequest ==
    (idPc # "idle" /\ NoHandleSupplied)
    => IF idCall.default_handle = ""
       THEN idResult = "error 400" /\ idRequests = <<>>
       ELSE /\ idResult # "error 400"
            /\ idRequests # <<>>
            /\ \A k \in 1..Len(idRequests) :
                 idRequests[k].handles \in {<<>>, <<idCall.default_handle>>}
            /\ \E k \in 1..Len(idRequests) :
                 idRequests[k].handles = <<idCall.default_handle>>

\* C24 witness: recommend_problems called with an empty handle while
\* DEFAULT_HANDLE is configured asked user.info and user.status for the
\* configured handle and answered.
C24_Witness_EmptyHandleUsesDefault ==
    /\ idPc = "done"
    /\ idCall.tool = "recommend_problems"
    /\ idCall.handle = ""
    /\ idCall.default_handle = "tourist"
    /\ idResult = "answered"
    /\ Len(idRequests) = 3
    /\ idRequests[1] = [endpoint |-> "user.info", handles |-> <<"tourist">>]

(***************************************************************************)
(* Claims about the recently solved problems                               *)
(***************************************************************************)
\* The (contest identifier, problem index) pair of a submission.
PairOf(sub) == <<sub.problem.contestId, sub.problem.index>>

\* The time of the latest accepted submission of the pair.
LastSolved(subs, pair) ==
    CHOOSE t \in Times :
        /\ \E k \in 1..Len(subs) :
             subs[k].verdict = "OK" /\ PairOf(subs[k]) = pair
             /\ subs[k].creationTimeSeconds = t
        /\ \A k \in 1..Len(subs) :
             (subs[k].verdict = "OK" /\ PairOf(subs[k]) = pair)
             => subs[k].creationTimeSeconds <= t

\* C25: get_solved_problems lists the most recently solved problems: the
\* entries are distinct problems in non-increasing time of the accepted
\* submission shown, each problem is shown with its most recent accepted
\* submission among those fetched, no unlisted solved problem is more
\* recent than a listed one, and there are min(count, number of distinct
\* solved problems) entries.
C25_RecentlySolvedListing ==
    (rcPc = "done" /\ rcReply.kind # "error 500")
    => LET entries == rcReply.entries
           solved == SolvedPairs(rcSubs)
       IN /\ Len(entries) = IF rcCount < Cardinality(solved)
                            THEN rcCount ELSE Cardinality(solved)
          /\ \A a, b \in 1..Len(entries) : a # b => PairOf(entries[a]) # PairOf(entries[b])
          /\ \A a \in 1..(Len(entries) - 1) :
               entries[a].creationTimeSeconds >= entries[a + 1].creationTimeSeconds
          /\ \A a \in 1..Len(entries) :
               /\ entries[a].verdict = "OK"
               /\ PairOf(entries[a]) \in solved
               /\ entries[a].creationTimeSeconds = LastSolved(rcSubs, PairOf(entries[a]))
          /\ \A pair \in solved :
               (\A a \in 1..Len(entries) : PairOf(entries[a]) # pair)
               => \A a \in 1..Len(entries) :
                    LastSolved(rcSubs, pair) <= entries[a].creationTimeSeconds
          /\ (rcReply.kind = "none found") = (solved = {})

\* C25 witness: a problem was accepted at time 100 and again at time 200,
\* another one at time 100 in between, and with count = 1 the single entry
\* is the first problem with its submission of time 200, fetched last.
C25_Witness_LatestOfResubmitted ==
    /\ rcPc = "done"
    /\ rcCount = 1
    /\ Len(rcSubs) = 3
    /\ rcSubs[1].verdict = "OK" /\ rcSubs[2].verdict = "OK" /\ rcSubs[3].verdict = "OK"
    /\ PairOf(rcSubs[1]) = PairOf(rcSubs[3])
    /\ PairOf(rcSubs[1]) # PairOf(rcSubs[2])
    /\ rcSubs[1].creationTimeSeconds = 100
    /\ rcSubs[2].creationTimeSeconds = 100
    /\ rcSubs[3].creationTimeSeconds = 200
    /\ rcReply.entries = <<rcSubs[3]>>

(***************************************************************************)
(* Claims about the conversation manager                                   *)
(***************************************************************************)
\* The indices of the function-call parts before part n.
CallsBefore(n) == {k \in 1..Len(cvParts) : k < n /\ cvParts[k] = "call"}

\* The dispatches, and the function responses, of the log.
Dispatches == SelectSeq(cvLog, LAMBDA e : e.op = "dispatch")
Responses == SelectSeq(cvLog, LAMBDA e : e.op = "respond")

\* C27: process_message never raises: it takes the function-call parts in
\* order, performs one bridge dispatch for each and then sends one function
\* response carrying that dispatch's result before it handles the next
\* part; an exception on the way is returned as the error text, and
\* without an exception a response with no usable part returns "No
\* response generated.".
C27_OneDispatchOneResponsePerCall ==
    /\ \A k \in 1..Len(cvLog) :
         IF k % 2 = 1
         THEN /\ cvLog[k].op = "dispatch"
              /\ cvParts[cvLog[k].part] = "call"
              /\ Cardinality(CallsBefore(cvLog[k].part)) = (k - 1) \div 2
         ELSE /\ cvLog[k].op = "respond"
              /\ cvLog[k].part = cvLog[k - 1].part
              /\ cvLog[k].result = cvLog[k - 1].result
    /\ cvPc = "done"
       => /\ cvReturn.kind \in {"joined", "none generated", "error"}
          /\ Len(Dispatches) = Len(Responses)
          /\ cvReturn.kind # "error"
             => /\ Len(Dispatches) = Cardinality(CallsBefore(Len(cvParts) + 1))
                /\ (\A k \in 1..Len(cvParts) : cvParts[k] = "blank")
                   => cvReturn.kind = "none generated"
                /\ (\E k \in 1..Len(cvParts) : cvParts[k] # "blank")
                   => cvReturn.kind = "joined"

\* C27 witness: a response with two function calls around a text part was
\* answered without an error: two dispatches, each followed by its function
\* response, and both results in the returned text.
C27_Witness_TwoCallsAnswered ==
    /\ cvPc = "done"
    /\ cvParts = <<"call", "text", "call">>
    /\ cvReturn.kind = "joined"
    /\ Len(cvLog) = 4
    /\ cvLog[1].part = 1 /\ cvLog[3].part = 3
    /\ cvLog[1].result # cvLog[3].result
    /\ cvLog[4].result = cvLog[3].result

(***************************************************************************)
(* Claims about the ranking outputs                                        *)
(***************************************************************************)
\* The rows are in non-increasing order of rating.
ByRatingDesc(rows) ==
    \A k \in 1..(Len(rows) - 1) : rows[k].current_rating >= rows[k + 1].current_rating

\* The largest and the smallest rating among the users user.info returned.
MaxRating(users) ==
    CHOOSE r \in {users[k].rating : k \in 1..Len(users)} :
        \A k \in 1..Len(users) : users[k].rating <= r

MinRating(users) ==
    CHOOSE r \in {users[k].rating : k \in 1..Len(users)} :
        \A k \in 1..Len(users) : users[k].rating >= r

\* C29: the ranking outputs are ordered by rating: get_codeforces_user_stats
\* lists every user found once, in non-increasing rating with a missing
\* rating counted as 0; compare_codeforces_users lists every user once in
\* non-increasing current rating, names as leader a user whose rating is
\* the maximum, and reports as spread the maximum minus the minimum, also
\* when rows are degraded.
C29_RankingsOrderedByRating ==
    /\ (stPc = "done" /\ stReply.kind = "stats")
       => /\ ByRatingDesc(stReply.rows)
          /\ Len(stReply.rows) = Len(stUsersInfo)
          /\ \A k \in 1..Len(stUsersInfo) :
               \E n \in 1..Len(stReply.rows) :
                  /\ stReply.rows[n].handle = stUsersInfo[k].handle
                  /\ stReply.rows[n].current_rating = stUsersInfo[k].rating
                  /\ stReply.rows[n].shown = NA => stReply.rows[n].current_rating = 0
    /\ (cmpPc = "done" /\ cmpResult.kind = "comparison")
       => /\ ByRatingDesc(cmpResult.rows)
          /\ Len(cmpResult.rows) = Len(cmpUsersInfo)
          /\ \A k \in 1..Len(cmpUsersInfo) :
               \E n \in 1..Len(cmpResult.rows) :
                  /\ cmpResult.rows[n].handle = cmpUsersInfo[k].handle
                  /\ cmpResult.rows[n].current_rating = cmpUsersInfo[k].rating
          /\ \E k \in 1..Len(cmpUsersInfo) :
               /\ cmpUsersInfo[k].handle = cmpResult.winner
               /\ cmpUsersInfo[k].rating = MaxRating(cmpUsersInfo)
          /\ cmpResult.gap = MaxRating(cmpUsersInfo) - MinRating(cmpUsersInfo)
          /\ cmpResult.gap >= 0

\* C29 witness: a comparison whose first requested user has the lowest
\* rating and a degraded row: the leader is another user and the spread is
\* positive.
C29_Witness_DegradedRowRanked ==
    /\ cmpPc = "done"
    /\ cmpResult.kind = "comparison"
    /\ Len(cmpResult.rows) >= 2
    /\ cmpResult.winner # cmpHandles[1]
    /\ cmpResult.gap > 0
    /\ \E n \in 1..Len(cmpResult.rows) :
         /\ cmpResult.rows[n].handle = cmpHandles[1]
         /\ cmpResult.rows[n].error
         /\ n > 1

(***************************************************************************)
(* Claims about the upcoming contests                                      *)
(***************************************************************************)
\* The platform names the aggregator knows, and the names the tool supports.
AggregatorNames ==
    {"codeforces.com", "leetcode.com", "codechef.com", "atcoder.jp",
     "topcoder.com", "codingninjas.com/codestudio"}

SupportedPlatforms ==
    {"codeforces", "leetcode", "codechef", "atcoder", "topcoder", "codingninjas"}

\* The platforms the call is about: the ones requested, or the three
\* default ones.
Requested ==
    IF ctArgs.platforms \in {AbsentList, <<>>}
    THEN <<"codeforces", "leetcode", "codechef">> ELSE ctArgs.platforms

Recognised == SelectSeq(Requested, LAMBDA p : p \in SupportedPlatforms)

\* C30: get_upcoming_contests ignores platform names outside the supported
\* mapping: the request's resource filter holds the mapped names of the
\* recognised platforms in request order; when none is recognised no
\* request is issued and the reply is the 'no upcoming contests' text; the
\* reply lists at most `limit` contests, in the order the aggregator
\* returned them.
C30_OnlyRecognisedPlatformsRequested ==
    ctPc # "idle"
    => /\ IF Recognised = <<>>
          THEN ctRequests = <<>> /\ ctPc = "done" /\ ctReply.kind = "no contests"
          ELSE /\ Len(ctRequests) = 1
               /\ Len(ctRequests[1].resource__in) = Len(Recognised)
               /\ \A k \in 1..Len(Recognised) :
                    /\ ctRequests[1].resource__in[k] \in AggregatorNames
                    /\ ctRequests[1].resource__in[k] = PlatformMapping[Recognised[k]]
       /\ ctPc = "done" /\ ctReply.kind # "error 500"
          => /\ Len(ctReply.entries) <= ctArgs.limit
             /\ Len(ctReply.entries) <= Len(ctUpstream)
             /\ \A k \in 1..Len(ctReply.entries) : ctReply.entries[k] = ctUpstream[k]
             /\ (ctReply.kind = "no contests") = (ctUpstream = <<>>)
             /\ Len(ctReply.entries) = ctArgs.limit \/ Len(ctReply.entries) = Len(ctUpstream)

\* C30 witness: of <<"spoj", "topcoder", "codeforces">> the request names
\* topcoder.com and codeforces.com, in that order, and with limit = 2 the
\* reply lists the first two of three contests returned.
C30_Witness_UnknownPlatformDropped ==
    /\ ctPc = "done"
    /\ ctArgs = [platforms |-> <<"spoj", "topcoder", "codeforces">>, limit |-> 2]
    /\ ctRequests[1].resource__in = <<"topcoder.com", "codeforces.com">>
    /\ Len(ctUpstream) = 3
    /\ ctUpstream[1] > ctUpstream[2]
    /\ ctReply.entries = <<ctUpstream[1], ctUpstream[2]>>

====
